---- MODULE Spec2Model ----
(***************************************************************************)
(* A model of the pyATS network validation suites: the interface-name      *)
(* normalizers, the per-device checkers of the layer-1, layer-2 and MPLS   *)
(* test scripts, and the aetest sections that run them.                    *)
(*                                                                         *)
(* Python values are modelled as follows.  A str is a sequence of          *)
(* one-character strings where the code looks inside it (replace, lower,   *)
(* in) and a TLA+ string where it only compares it.  A list is a sequence. *)
(* A dict that the code only looks keys up in is a function; a dict the    *)
(* code iterates is a sequence of <<key, value>> pairs in insertion order. *)
(* A device query (device.parse / device.execute) answers with a payload   *)
(* or raises: the answer is an input drawn when the query is issued.       *)
(***************************************************************************)
EXTENDS Integers, Sequences, FiniteSets, TLC

VARIABLES
    raw_x,        \* normalizer input: an interface name in vendor long form
    raw_y,        \* normalizer input: the same interface in short form
    norm_x,       \* normalizer output for raw_x
    norm_y,       \* normalizer output for raw_y
    normalizer,   \* which normalizer produced norm_x, norm_y ("none" before)
    testbed,      \* the loaded testbed: devices (name, custom) and links
    parameters,   \* self.parent.parameters: the device lists of common setup
    self_attr,    \* attributes the testcases stored on self
    pc,           \* the aetest section that runs next
    cursor,       \* index of the next element of the running checker's loop
    failed,       \* the running checker's failure list
    details,      \* the findings of the last loop iteration
    observed,     \* the answers to the queries of the last loop iteration
    visited,      \* the loop elements the running checker has evaluated
    result        \* verdict of every section that has run

normvars == <<raw_x, raw_y, norm_x, norm_y, normalizer>>
runvars  == <<testbed, parameters, self_attr, pc, cursor, failed, details,
              observed, visited, result>>
vars     == <<raw_x, raw_y, norm_x, norm_y, normalizer, testbed, parameters,
              self_attr, pc, cursor, failed, details, observed, visited, result>>

(***************************************************************************)
(* Bounds of the model.                                                    *)
(***************************************************************************)
MaxUnit == 1        \* interface numbers are drawn from 0..MaxUnit

(***************************************************************************)
(* Python str operations on sequences of characters.                       *)
(***************************************************************************)
\* the lower-case letter of every upper-case letter, and the reverse
LowerCase ==
    ("A" :> "a") @@ ("B" :> "b") @@ ("C" :> "c") @@ ("D" :> "d") @@
    ("E" :> "e") @@ ("F" :> "f") @@ ("G" :> "g") @@ ("H" :> "h") @@
    ("I" :> "i") @@ ("J" :> "j") @@ ("K" :> "k") @@ ("L" :> "l") @@
    ("M" :> "m") @@ ("N" :> "n") @@ ("O" :> "o") @@ ("P" :> "p") @@
    ("Q" :> "q") @@ ("R" :> "r") @@ ("S" :> "s") @@ ("T" :> "t") @@
    ("U" :> "u") @@ ("V" :> "v") @@ ("W" :> "w") @@ ("X" :> "x") @@
    ("Y" :> "y") @@ ("Z" :> "z")
UpperCase ==
    ("a" :> "A") @@ ("b" :> "B") @@ ("c" :> "C") @@ ("d" :> "D") @@
    ("e" :> "E") @@ ("f" :> "F") @@ ("g" :> "G") @@ ("h" :> "H") @@
    ("i" :> "I") @@ ("j" :> "J") @@ ("k" :> "K") @@ ("l" :> "L") @@
    ("m" :> "M") @@ ("n" :> "N") @@ ("o" :> "O") @@ ("p" :> "P") @@
    ("q" :> "Q") @@ ("r" :> "R") @@ ("s" :> "S") @@ ("t" :> "T") @@
    ("u" :> "U") @@ ("v" :> "V") @@ ("w" :> "W") @@ ("x" :> "X") @@
    ("y" :> "Y") @@ ("z" :> "Z")

\* str.lower() and str.upper() of one character
LowerChar(c) == IF c \in DOMAIN LowerCase THEN LowerCase[c] ELSE c
UpperChar(c) == IF c \in DOMAIN UpperCase THEN UpperCase[c] ELSE c

str_lower(s) == [i \in 1..Len(s) |-> LowerChar(s[i])]
str_upper(s) == [i \in 1..Len(s) |-> UpperChar(s[i])]

\* old occurs in s at position i
OccursAt(s, i, old) ==
    /\ i + Len(old) - 1 <= Len(s)
    /\ \A k \in 1..Len(old) : s[i + k - 1] = old[k]

\* the Python expression  old in s
str_contains(s, old) == \E i \in 1..(Len(s) - Len(old) + 1) : OccursAt(s, i, old)

\* s.replace(old, new): every non-overlapping occurrence, left to right
RECURSIVE ReplaceFrom(_, _, _, _)
ReplaceFrom(s, i, old, new) ==
    IF i > Len(s) THEN <<>>
    ELSE IF OccursAt(s, i, old)
         THEN new \o ReplaceFrom(s, i + Len(old), old, new)
         ELSE <<s[i]>> \o ReplaceFrom(s, i + 1, old, new)
str_replace(s, old, new) == ReplaceFrom(s, 1, old, new)

(***************************************************************************)
(* Interface identity normalizers.                                         *)
(***************************************************************************)
s_gigabitethernet == <<"g","i","g","a","b","i","t","e","t","h","e","r","n","e","t">>
s_fastethernet == <<"f","a","s","t","e","t","h","e","r","n","e","t">>
s_ethernet == <<"e","t","h","e","r","n","e","t">>
s_tengigabitethernet == <<"t","e","n">> \o s_gigabitethernet
s_twentyfivegige == <<"t","w","e","n","t","y","f","i","v","e","g","i","g","e">>
s_fortygigabitethernet == <<"f","o","r","t","y">> \o s_gigabitethernet
s_hundredgige == <<"h","u","n","d","r","e","d","g","i","g","e">>
s_loopback == <<"l","o","o","p","b","a","c","k">>
s_vlan == <<"v","l","a","n">>
s_port_channel == <<"p","o","r","t","-","c","h","a","n","n","e","l">>

\* the replacements dict of _normalize_interface_name, in insertion order
replacements ==
    << <<s_gigabitethernet, <<"g","i">> >>,
       <<s_fastethernet, <<"f","a">> >>,
       <<s_ethernet, <<"e","t","h">> >>,
       <<s_tengigabitethernet, <<"t","e">> >>,
       <<s_twentyfivegige, <<"t","w","e">> >>,
       <<s_fortygigabitethernet, <<"f","o">> >>,
       <<s_hundredgige, <<"h","u">> >>,
       <<s_loopback, <<"l","o">> >>,
       <<s_vlan, s_vlan>>,
       <<s_port_channel, <<"p","o">> >> >>

\* for full, abbrev in replacements.items(): name = name.replace(full, abbrev)
RECURSIVE ApplyReplacements(_, _, _)
ApplyReplacements(name, table, k) ==
    IF k > Len(table) THEN name
    ELSE ApplyReplacements(str_replace(name, table[k][1], table[k][2]), table, k + 1)

\* OspfInterfaceHealth._normalize_interface_name
normalize_interface_name(name) == ApplyReplacements(str_lower(name), replacements, 1)

\* normalize_interface of the REP suite (three identical local functions)
normalize_interface(intf) ==
    LET a == str_lower(intf)
        b == str_replace(a, s_gigabitethernet, <<"g","i">>)
        c == str_replace(b, s_tengigabitethernet, <<"t","e">>)
    IN  str_replace(c, s_port_channel, <<"p","o">>)

(***************************************************************************)
(* Inputs of the normalizers: the long and the short name of one interface *)
(***************************************************************************)
DigitChar == <<"0","1","2","3","4","5","6","7","8","9">>
Digit(n) == DigitChar[n + 1]

\* the vendor naming conventions: <<long form, short form>>
NameFamilies ==
    { << <<"G","i","g","a","b","i","t","E","t","h","e","r","n","e","t">>, <<"G","i">> >>,
      << <<"T","e","n","G","i","g","a","b","i","t","E","t","h","e","r","n","e","t">>, <<"T","e">> >>,
      << <<"F","a","s","t","E","t","h","e","r","n","e","t">>, <<"F","a">> >>,
      << <<"F","o","r","t","y","G","i","g","a","b","i","t","E","t","h","e","r","n","e","t">>, <<"F","o">> >>,
      << <<"P","o","r","t","-","c","h","a","n","n","e","l">>, <<"P","o">> >> }

\* numeric suffixes: "n" and "m/n"
Suffixes ==
    { <<Digit(n)>> : n \in 0..MaxUnit } \cup
    { <<Digit(m), "/", Digit(n)>> : m \in 0..MaxUnit, n \in 0..MaxUnit }

\* the letter cases a data source may use
Cased(s) == { s, str_lower(s), str_upper(s) }

RunIdle ==
    /\ testbed = <<>>
    /\ parameters = <<>>
    /\ self_attr = <<>>
    /\ pc = "idle"
    /\ cursor = 0
    /\ failed = <<>>
    /\ details = <<>>
    /\ observed = <<>>
    /\ visited = <<>>
    /\ result = <<>>

NormInit ==
    /\ \E fam \in NameFamilies, suf \in Suffixes :
         /\ raw_x \in Cased(fam[1] \o suf)
         /\ raw_y \in Cased(fam[2] \o suf)
    /\ norm_x = <<>>
    /\ norm_y = <<>>
    /\ normalizer = "none"
    /\ RunIdle

NormIdle ==
    /\ raw_x = <<>>
    /\ raw_y = <<>>
    /\ norm_x = <<>>
    /\ norm_y = <<>>
    /\ normalizer = "none"

\* the OSPF suite canonicalizes both names
NormalizeOspf ==
    /\ normalizer = "none"
    /\ norm_x' = normalize_interface_name(raw_x)
    /\ norm_y' = normalize_interface_name(raw_y)
    /\ normalizer' = "ospf"
    /\ UNCHANGED <<raw_x, raw_y>>
    /\ UNCHANGED runvars

\* the REP suite canonicalizes both names
NormalizeRep ==
    /\ normalizer = "none"
    /\ norm_x' = normalize_interface(raw_x)
    /\ norm_y' = normalize_interface(raw_y)
    /\ normalizer' = "rep"
    /\ UNCHANGED <<raw_x, raw_y>>
    /\ UNCHANGED runvars

NormNext == NormalizeOspf \/ NormalizeRep

SpecNorm == NormInit /\ [][NormNext]_vars

(***************************************************************************)
(* C1: two names of the same interface, one in a vendor long form and one  *)
(* in its short form, in any letter case, are normalized to equal strings  *)
(* by both normalizers.                                                    *)
(***************************************************************************)
C1_SameInterfaceSameCanonical ==
    normalizer # "none" => norm_x = norm_y

(***************************************************************************)
(* Python list and dict operations.                                        *)
(***************************************************************************)
\* d.get(k, default) on a dict modelled as a function
Get(d, k, default) == IF k \in DOMAIN d THEN d[k] ELSE default

\* set(l) for a list l
SeqToSet(l) == { l[i] : i \in DOMAIN l }

\* list(s) for a set s: the iteration order of a set is not fixed by its
\* elements, so every order is a possible outcome
ListOfSet(s) ==
    { l \in [1..Cardinality(s) -> s] : \A i, j \in 1..Cardinality(s) : l[i] = l[j] => i = j }

\* d.values() of a dict modelled as a sequence of <<key, value>> pairs
Values(d) == { d[i][2] : i \in DOMAIN d }

\* d.keys() of a dict modelled as a sequence of <<key, value>> pairs, in order
Keys(d) == [i \in DOMAIN d |-> d[i][1]]

\* a number in a payload is a float, held in tenths, or the str a parser left
Float(tenths) == [type |-> "float", value |-> tenths]
Str(text) == [type |-> "str", value |-> text]

(***************************************************************************)
(* The aetest sections.  A checker is one step per element of the list it  *)
(* loops over, at cursor, followed by the step that ends the section with  *)
(* its verdict.  The failure list and the other locals of a checker are    *)
(* gone when its section has ended.                                        *)
(***************************************************************************)
\* the answer of device.parse(...): it raised, or it returned output
Raised == [raised |-> TRUE, output |-> <<>>]
Returned(output) == [raised |-> FALSE, output |-> output]

\* self.failed(...) if the failure list is non-empty; otherwise self.passed(...)
\* or the section returns, which aetest records as Passed
Verdict(failure_list) == IF failure_list # <<>> THEN "Failed" ELSE "Passed"

\* one iteration of a loop that puts its entries in front of the failure list
LoopStepPrepended(entries, found, queries) ==
    /\ failed' = entries \o failed
    /\ details' = found
    /\ observed' = queries
    /\ visited' = Append(visited, cursor)
    /\ cursor' = cursor + 1
    /\ UNCHANGED <<pc, result>>

\* one iteration of a checker's loop: entries is what the iteration appended
\* to the failure list, found the findings it made and queries the answers
\* it got
LoopStep(entries, found, queries) ==
    /\ failed' = failed \o entries
    /\ details' = found
    /\ observed' = queries
    /\ visited' = Append(visited, cursor)
    /\ cursor' = cursor + 1
    /\ UNCHANGED <<pc, result>>

\* an exception that no handler of the checker catches leaves the loop:
\* the rest of the loop is not run (cursor 0)
LoopAbort(found, queries) ==
    /\ details' = found
    /\ observed' = queries
    /\ visited' = Append(visited, cursor)
    /\ cursor' = 0
    /\ UNCHANGED <<pc, failed, result>>

\* the end of a test section: aetest records Errored for an exception that
\* escaped the section, else the verdict of the failure list
SectionEnd(section, next) ==
    /\ result' = [result EXCEPT ![section] =
                     IF cursor = 0 THEN "Errored" ELSE Verdict(failed)]
    /\ pc' = next
    /\ cursor' = 1
    /\ failed' = <<>>
    /\ details' = <<>>
    /\ observed' = <<>>
    /\ visited' = <<>>

\* a testcase setup: self.skipped(...) when skip holds, which ends the
\* testcase before its tests; otherwise the first test runs next
SetupStep(section, skip, first_test, next_testcase) ==
    /\ result' = [result EXCEPT ![section] = IF skip THEN "Skipped" ELSE "Passed"]
    /\ pc' = IF skip THEN next_testcase ELSE first_test
    /\ cursor' = 1
    /\ UNCHANGED <<failed, details, observed, visited>>

\* the devices of the testbed are named R1, R2, ... in testbed order
DeviceName(i) == <<"R1", "R2", "R3", "R4">>[i]

(***************************************************************************)
(* tests/layer3/test_mpls_core.py                                          *)
(***************************************************************************)
MaxDevices == 2     \* a testbed has 1..MaxDevices devices

s_oper == <<"o","p","e","r">>

\* custom attributes an MPLS testbed device may declare
MplsCustoms ==
    { [k \in keys |-> all[k]] :
        keys \in SUBSET {"mpls_role", "ldp_neighbors", "critical_prefixes"},
        all \in [mpls_role : {"PE"},
                 ldp_neighbors : { <<>>, <<"n1", "n2">> },
                 critical_prefixes : { <<"p1">> }] }

MplsSections ==
    { "mark_mpls_routers", "LdpNeighbors.setup", "verify_ldp_neighbors",
      "MplsLabels.setup", "verify_label_bindings" }

MplsInit ==
    /\ \E n \in 1..MaxDevices : \E customs \in [1..n -> MplsCustoms] :
         testbed = [devices |-> [i \in 1..n |-> [name |-> DeviceName(i), custom |-> customs[i]]],
                    links |-> <<>>]
    /\ parameters = <<>>
    /\ self_attr = <<>>
    /\ pc = "mark_mpls_routers"
    /\ cursor = 1
    /\ failed = <<>>
    /\ details = <<>>
    /\ observed = <<>>
    /\ visited = <<>>
    /\ result = [s \in MplsSections |-> "NotRun"]
    /\ NormIdle

\* mpls_role in ['P', 'PE', 'P-PE']
is_mpls_router(device) == Get(device.custom, "mpls_role", "None") \in {"P", "PE", "P-PE"}

\* CommonSetup.mark_mpls_routers
mark_mpls_routers ==
    /\ pc = "mark_mpls_routers"
    /\ parameters' = [mpls_routers |-> SelectSeq(testbed.devices, is_mpls_router)]
    /\ result' = [result EXCEPT !["mark_mpls_routers"] = "Passed"]
    /\ pc' = "LdpNeighbors.setup"
    /\ UNCHANGED <<testbed, self_attr, cursor, failed, details, observed, visited>>
    /\ UNCHANGED normvars

\* LdpNeighbors.setup
LdpNeighbors_setup ==
    /\ pc = "LdpNeighbors.setup"
    /\ SetupStep("LdpNeighbors.setup", parameters.mpls_routers = <<>>,
                 "verify_ldp_neighbors", "MplsLabels.setup")
    /\ UNCHANGED <<testbed, parameters, self_attr>>
    /\ UNCHANGED normvars

\* the peers of a 'show mpls ldp neighbor' payload whose state is oper
RECURSIVE OperPeers(_, _)
OperPeers(peers, i) ==
    IF i > Len(peers) THEN <<>>
    ELSE (IF str_lower(Get(peers[i][2], "state", <<>>)) = s_oper
          THEN <<peers[i][1]>> ELSE <<>>) \o OperPeers(peers, i + 1)

RECURSIVE OperPeersOfVrfs(_, _)
OperPeersOfVrfs(vrfs, i) ==
    IF i > Len(vrfs) THEN <<>>
    ELSE (IF "peers" \in DOMAIN vrfs[i][2] THEN OperPeers(vrfs[i][2].peers, 1) ELSE <<>>)
         \o OperPeersOfVrfs(vrfs, i + 1)

operational_neighbors(output) ==
    IF "vrf" \in DOMAIN output THEN OperPeersOfVrfs(output.vrf, 1) ELSE <<>>

\* set(expected_neighbors) - set(operational_neighbors)
missing_neighbors(expected_neighbors, operational) ==
    SeqToSet(expected_neighbors) \ SeqToSet(operational)

\* the body of verify_ldp_neighbors for one device: the entries it appends to
\* failed_devices; missing is list(missing_neighbors)
ldp_findings(device, answer, missing) ==
    IF answer.raised
    THEN << [device |-> device.name, error |-> "raised"] >>
    ELSE IF missing # <<>>
         THEN << [device |-> device.name, missing |-> missing,
                  operational |-> operational_neighbors(answer.output)] >>
         ELSE <<>>

\* 'show mpls ldp neighbor' payloads
LdpPeerTables ==
    { <<>>,
      << <<"n1", [state |-> <<"O","p","e","r">>]>> >>,
      << <<"n1", [state |-> s_oper]>>, <<"n2", [state |-> s_oper]>> >>,
      << <<"n1", [state |-> <<"d","o","w","n">>]>>, <<"n2", [state |-> s_oper]>> >>,
      << <<"n3", [state |-> s_oper]>>, <<"n1", [state |-> s_oper]>> >> }

LdpOutputs ==
    { <<>>, [vrf |-> << <<"default", <<>> >> >>] } \cup
    { [vrf |-> << <<"default", [peers |-> t]>> >>] : t \in LdpPeerTables }

LdpAnswers == {Raised} \cup { Returned(o) : o \in LdpOutputs }

\* LdpNeighbors.verify_ldp_neighbors, one device of mpls_routers
verify_ldp_neighbors ==
    /\ pc = "verify_ldp_neighbors"
    /\ LET mpls_routers == parameters.mpls_routers
           device == mpls_routers[cursor]
           expected_neighbors == Get(device.custom, "ldp_neighbors", <<>>)
       IN  IF cursor \notin DOMAIN mpls_routers
           THEN SectionEnd("verify_ldp_neighbors", "MplsLabels.setup")
           ELSE IF expected_neighbors = <<>>
           THEN LoopStep(<<>>, <<>>, <<>>)
           ELSE \E answer \in LdpAnswers :
                \E missing \in ListOfSet(missing_neighbors(expected_neighbors,
                                         operational_neighbors(answer.output))) :
                  LoopStep(ldp_findings(device, answer, missing),
                           ldp_findings(device, answer, missing),
                           << [device |-> device.name, answer |-> answer] >>)
    /\ UNCHANGED <<testbed, parameters, self_attr>>
    /\ UNCHANGED normvars

\* MplsLabels.setup
MplsLabels_setup ==
    /\ pc = "MplsLabels.setup"
    /\ SetupStep("MplsLabels.setup", parameters.mpls_routers = <<>>,
                 "verify_label_bindings", "done")
    /\ UNCHANGED <<testbed, parameters, self_attr>>
    /\ UNCHANGED normvars

\* a 'show mpls forwarding-table' payload binding labels to these prefixes
ForwardingTable(prefixes) ==
    [vrf |-> << <<"default",
        [local_label |-> << <<"16",
            [outgoing_label |-> << <<"Pop Label",
                [prefix_or_tunnel_id |->
                    [i \in DOMAIN prefixes |-> <<prefixes[i], [prefix |-> prefixes[i]]>>]]
            >> >>]
        >> >>]
    >> >>]

ForwardingOutputs ==
    { <<>>, [vrf |-> <<>>], [vrf |-> << <<"default", <<>> >> >>] } \cup
    { ForwardingTable(p) : p \in { <<>>, <<"p1">>, <<"p2">>, <<"p2", "p1">> } }

ForwardingAnswers == {Raised} \cup { Returned(o) : o \in ForwardingOutputs }

\* the nested loops that look for a label bound to prefix
label_found(output, prefix) ==
    \E vrf_data \in Values(output.vrf) :
      /\ "local_label" \in DOMAIN vrf_data
      /\ \E label_data \in Values(vrf_data.local_label) :
         \E out_data \in Values(Get(label_data, "outgoing_label", <<>>)) :
           /\ "prefix_or_tunnel_id" \in DOMAIN out_data
           /\ \E pfx_data \in Values(out_data.prefix_or_tunnel_id) :
                Get(pfx_data, "prefix", "None") = prefix

\* missing_labels: the critical prefixes without a label, in list order
RECURSIVE missing_labels(_, _, _)
missing_labels(output, critical_prefixes, i) ==
    IF i > Len(critical_prefixes) THEN <<>>
    ELSE (IF label_found(output, critical_prefixes[i]) THEN <<>>
          ELSE <<critical_prefixes[i]>>)
         \o missing_labels(output, critical_prefixes, i + 1)

\* the body of verify_label_bindings for one device
label_findings(device, answer) ==
    LET critical_prefixes == Get(device.custom, "critical_prefixes", <<>>)
        output == answer.output
    IN  IF answer.raised
        THEN << [device |-> device.name, error |-> "raised"] >>
        ELSE IF "vrf" \notin DOMAIN output \/ output.vrf = <<>>
        THEN << [device |-> device.name, issue |-> "No MPLS forwarding entries found"] >>
        ELSE IF critical_prefixes # <<>>
                /\ missing_labels(output, critical_prefixes, 1) # <<>>
        THEN << [device |-> device.name,
                 missing_labels |-> missing_labels(output, critical_prefixes, 1)] >>
        ELSE <<>>

\* MplsLabels.verify_label_bindings, one device of mpls_routers
verify_label_bindings ==
    /\ pc = "verify_label_bindings"
    /\ LET mpls_routers == parameters.mpls_routers
           device == mpls_routers[cursor]
       IN  IF cursor \notin DOMAIN mpls_routers
           THEN SectionEnd("verify_label_bindings", "done")
           ELSE \E answer \in ForwardingAnswers :
                  LoopStep(label_findings(device, answer),
                           label_findings(device, answer),
                           << [device |-> device.name, answer |-> answer] >>)
    /\ UNCHANGED <<testbed, parameters, self_attr>>
    /\ UNCHANGED normvars

MplsNext ==
    \/ mark_mpls_routers
    \/ LdpNeighbors_setup
    \/ verify_ldp_neighbors
    \/ MplsLabels_setup
    \/ verify_label_bindings

SpecMpls == MplsInit /\ [][MplsNext]_vars

\* the testbed device of that name
DeviceNamed(name) ==
    testbed.devices[CHOOSE i \in DOMAIN testbed.devices : testbed.devices[i].name = name]

\* the devices the checker whose loop is over or under way has iterated over
Iterated(device_list) == { device_list[j].name : j \in SeqToSet(visited) }

(***************************************************************************)
(* C9: a device is evaluated by a checker iff it declares a non-empty      *)
(* expectation relevant to the checker, whatever its other attributes are: *)
(* verify_ldp_neighbors queries only devices that declare a non-empty      *)
(* ldp_neighbors, and once the LdpNeighbors testcase is over every device  *)
(* of the testbed that declares one is among the devices it went through.  *)
(***************************************************************************)
C9_EvaluatedIffDeclared ==
    /\ pc = "verify_ldp_neighbors"
         => \A i \in DOMAIN observed :
              Get(DeviceNamed(observed[i].device).custom, "ldp_neighbors", <<>>) # <<>>
    /\ \/ result["LdpNeighbors.setup"] = "Skipped"
       \/ pc = "verify_ldp_neighbors" /\ cursor \notin DOMAIN parameters.mpls_routers
         => \A i \in DOMAIN testbed.devices :
              Get(testbed.devices[i].custom, "ldp_neighbors", <<>>) # <<>>
                => testbed.devices[i].name \in Iterated(parameters.mpls_routers)

(***************************************************************************)
(* C10: a device that declares no expectation for a checker contributes no *)
(* finding to it, whatever its query returns or raises: every entry of the *)
(* failure list of verify_label_bindings names a device that declares a    *)
(* non-empty critical_prefixes.                                            *)
(***************************************************************************)
C10_NoExpectationNoFinding ==
    pc = "verify_label_bindings"
    => \A i \in DOMAIN failed :
         Get(DeviceNamed(failed[i].device).custom, "critical_prefixes", <<>>) # <<>>

(***************************************************************************)
(* tests/layer2/test_layer2.py                                             *)
(***************************************************************************)
\* str(n) for a natural number n
RECURSIVE str_int(_)
str_int(n) == IF n < 10 THEN <<Digit(n)>> ELSE str_int(n \div 10) \o <<Digit(n % 10)>>

s_active == <<"a","c","t","i","v","e">>
s_act_lshut == <<"a","c","t","/","l","s","h","u","t">>
s_suspended == <<"s","u","s","p","e","n","d","e","d">>
s_trunk == <<"t","r","u","n","k">>
s_access == <<"a","c","c","e","s","s">>
s_Gi0_1 == <<"G","i","0","/","1">>
s_Gi0_11 == <<"G","i","0","/","1","1">>
s_GigabitEthernet0_1 ==
    <<"G","i","g","a","b","i","t","E","t","h","e","r","n","e","t","0","/","1">>
s_up == <<"u","p">>
s_down == <<"d","o","w","n">>

\* custom attributes a layer-2 testbed device may declare
L2Customs ==
    { <<>>,
      [l2_enabled |-> TRUE],
      [expected_vlans |-> <<10>>],
      [expected_vlans |-> <<10, 20>>, trunk_ports |-> << <<s_Gi0_1, <<10, 20>> >> >>],
      [expected_vlans |-> <<10, 10>>],
      [l2_enabled |-> TRUE, expected_vlans |-> <<>>,
       trunk_ports |-> << <<s_Gi0_1, <<10>> >> >>] }

s_rapid_pvst == <<"r","a","p","i","d","-","p","v","s","t">>
s_pvst == <<"p","v","s","t">>
s_mst == <<"m","s","t">>

\* custom attributes a device of a spanning-tree testbed may declare
StpCustoms ==
    { [l2_enabled |-> TRUE],
      [stp_enabled |-> TRUE],
      [stp_enabled |-> TRUE, stp_mode |-> s_pvst],
      [stp_enabled |-> TRUE, stp_mode |-> <<"M","S","T">>] }

\* custom attributes a device of a port-channel testbed may declare
PortChannelCustoms ==
    { [l2_enabled |-> TRUE],
      [port_channels |-> <<1>>],
      [port_channels |-> <<2, 1>>] }

\* the kinds of testbed: the devices of one declare attributes of one kind
L2Families == <<L2Customs, StpCustoms, PortChannelCustoms>>

L2Sections ==
    { "mark_l2_devices", "VLANValidation.setup", "verify_vlan_existence",
      "verify_vlan_state", "verify_trunk_ports", "STPValidation.setup",
      "verify_stp_mode", "verify_stp_port_states", "PortChannelValidation.setup",
      "verify_port_channel_status" }

L2Init ==
    /\ \E n \in 1..MaxDevices : \E f \in DOMAIN L2Families :
       \E customs \in [1..n -> L2Families[f]] :
         testbed = [devices |-> [i \in 1..n |-> [name |-> DeviceName(i), custom |-> customs[i]]],
                    links |-> <<>>]
    /\ parameters = <<>>
    /\ self_attr = <<>>
    /\ pc = "mark_l2_devices"
    /\ cursor = 1
    /\ failed = <<>>
    /\ details = <<>>
    /\ observed = <<>>
    /\ visited = <<>>
    /\ result = [s \in L2Sections |-> "NotRun"]
    /\ NormIdle

\* l2_enabled or expected_vlans or stp_enabled or port_channels
is_l2_device(device) ==
    \/ Get(device.custom, "l2_enabled", FALSE)
    \/ Get(device.custom, "expected_vlans", <<>>) # <<>>
    \/ Get(device.custom, "stp_enabled", FALSE)
    \/ Get(device.custom, "port_channels", <<>>) # <<>>

\* CommonSetup.mark_l2_devices
mark_l2_devices ==
    /\ pc = "mark_l2_devices"
    /\ parameters' = [l2_devices |-> SelectSeq(testbed.devices, is_l2_device)]
    /\ result' = [result EXCEPT !["mark_l2_devices"] = "Passed"]
    /\ pc' = "VLANValidation.setup"
    /\ UNCHANGED <<testbed, self_attr, cursor, failed, details, observed, visited>>
    /\ UNCHANGED normvars

\* d.custom.get('expected_vlans') is truthy
has_expected_vlans(device) == Get(device.custom, "expected_vlans", <<>>) # <<>>

\* a setup that narrows the published l2_devices itself to the devices it
\* keeps, which VLANValidation.setup does not do
VLANValidation_setup_narrowing ==
    /\ pc = "VLANValidation.setup"
    /\ LET vlan_devices == SelectSeq(Get(parameters, "l2_devices", <<>>),
                                         has_expected_vlans)
       IN  /\ self_attr' = [vlan_devices |-> vlan_devices]
           /\ parameters' = [l2_devices |-> vlan_devices]
           /\ SetupStep("VLANValidation.setup", vlan_devices = <<>>,
                        "verify_vlan_existence", "STPValidation.setup")
    /\ UNCHANGED testbed
    /\ UNCHANGED normvars

\* VLANValidation.setup
VLANValidation_setup ==
    /\ pc = "VLANValidation.setup"
    /\ LET vlan_devices == SelectSeq(Get(parameters, "l2_devices", <<>>),
                                         has_expected_vlans)
       IN  /\ self_attr' = [vlan_devices |-> vlan_devices]
           /\ SetupStep("VLANValidation.setup", vlan_devices = <<>>,
                        "verify_vlan_existence", "STPValidation.setup")
    /\ UNCHANGED <<testbed, parameters>>
    /\ UNCHANGED normvars

\* 'show vlan' payloads
VlanTables ==
    { <<>>,
      << <<str_int(10), [state |-> s_active]>> >>,
      << <<str_int(20), [state |-> s_suspended]>> >>,
      << <<str_int(10), [state |-> s_active]>>, <<str_int(20), [vlan_state |-> s_act_lshut]>> >>,
      << <<str_int(30), [state |-> s_active]>>, <<str_int(10), <<>> >> >> }

ShowVlanOutputs == { <<>> } \cup { [vlans |-> t] : t \in VlanTables }

ShowVlanAnswers == {Raised} \cup { Returned(o) : o \in ShowVlanOutputs }

\* the loop over expected_vlans of verify_vlan_existence
RECURSIVE vlans_not_configured(_, _, _, _)
vlans_not_configured(device, expected_vlans, existing_vlan_ids, i) ==
    IF i > Len(expected_vlans) THEN <<>>
    ELSE (IF str_int(expected_vlans[i]) \notin existing_vlan_ids
          THEN << [device |-> device.name, issue |-> "VLAN not configured",
                   vlan |-> expected_vlans[i]] >>
          ELSE <<>>)
         \o vlans_not_configured(device, expected_vlans, existing_vlan_ids, i + 1)

\* the body of verify_vlan_existence for one device
vlan_existence_findings(device, answer) ==
    IF answer.raised
    THEN << [device |-> device.name, error |-> "Failed to parse VLAN info"] >>
    ELSE vlans_not_configured(device, Get(device.custom, "expected_vlans", <<>>),
                              SeqToSet(Keys(Get(answer.output, "vlans", <<>>))), 1)

\* VLANValidation.verify_vlan_existence, one device of vlan_devices
verify_vlan_existence ==
    /\ pc = "verify_vlan_existence"
    /\ LET device == self_attr.vlan_devices[cursor]
       IN  IF cursor \notin DOMAIN self_attr.vlan_devices
           THEN SectionEnd("verify_vlan_existence", "verify_vlan_state")
           ELSE \E answer \in ShowVlanAnswers :
                  LoopStep(vlan_existence_findings(device, answer),
                           vlan_existence_findings(device, answer),
                           << [device |-> device.name, answer |-> answer] >>)
    /\ UNCHANGED <<testbed, parameters, self_attr>>
    /\ UNCHANGED normvars

\* vlans[vlan_str] for a dict of <<key, value>> pairs
Lookup(d, k) == d[CHOOSE i \in DOMAIN d : d[i][1] = k][2]

\* the loop over expected_vlans of verify_vlan_state
RECURSIVE vlans_not_active(_, _, _, _)
vlans_not_active(device, expected_vlans, vlans, i) ==
    IF i > Len(expected_vlans) THEN <<>>
    ELSE LET vlan_str == str_int(expected_vlans[i])
             vlan_info == Lookup(vlans, vlan_str)
             state == str_lower(Get(vlan_info, "state", Get(vlan_info, "vlan_state", <<>>)))
         IN  (IF vlan_str \in SeqToSet(Keys(vlans)) /\ state \notin {s_active, s_act_lshut}
              THEN << [device |-> device.name, issue |-> "VLAN not active",
                       vlan |-> expected_vlans[i], state |-> state] >>
              ELSE <<>>)
             \o vlans_not_active(device, expected_vlans, vlans, i + 1)

\* the body of verify_vlan_state for one device
vlan_state_findings(device, answer) ==
    IF answer.raised
    THEN << [device |-> device.name, error |-> "Failed to parse VLAN info"] >>
    ELSE vlans_not_active(device, Get(device.custom, "expected_vlans", <<>>),
                          Get(answer.output, "vlans", <<>>), 1)

\* VLANValidation.verify_vlan_state, one device of vlan_devices
verify_vlan_state ==
    /\ pc = "verify_vlan_state"
    /\ LET device == self_attr.vlan_devices[cursor]
       IN  IF cursor \notin DOMAIN self_attr.vlan_devices
           THEN SectionEnd("verify_vlan_state", "verify_trunk_ports")
           ELSE \E answer \in ShowVlanAnswers :
                  LoopStep(vlan_state_findings(device, answer),
                           vlan_state_findings(device, answer),
                           << [device |-> device.name, answer |-> answer] >>)
    /\ UNCHANGED <<testbed, parameters, self_attr>>
    /\ UNCHANGED normvars

\* 'show interfaces trunk' payloads
TrunkOutputs ==
    { <<>>,
      << <<s_Gi0_1, [mode |-> s_trunk]>> >>,
      << <<s_Gi0_1, [mode |-> s_access]>> >>,
      << <<s_GigabitEthernet0_1, [mode |-> <<"O","n">>]>> >>,
      << <<s_Gi0_11, <<>> >>, <<s_Gi0_1, [mode |-> s_trunk]>> >> }

TrunkAnswers == {Raised} \cup { Returned(o) : o \in TrunkOutputs }

TrunkModes == { s_trunk, <<"o","n">>, <<"d","e","s","i","r","a","b","l","e">>,
                <<"a","u","t","o">> }

\* the entries of parsed whose name contains port_name, letter case aside
trunk_matches(parsed, port_name) ==
    { i \in DOMAIN parsed : str_contains(str_lower(parsed[i][1]), str_lower(port_name)) }

\* the search through the parsed output for one expected trunk port: the
\* first matching entry decides
trunk_port_findings(device, parsed, port_name) ==
    LET matches == trunk_matches(parsed, port_name)
        first == CHOOSE i \in matches : \A j \in matches : i <= j
        mode == str_lower(Get(parsed[first][2], "mode", <<>>))
    IN  IF matches = {}
        THEN << [device |-> device.name, issue |-> "Trunk port not found",
                 port |-> port_name] >>
        ELSE IF mode \notin TrunkModes
        THEN << [device |-> device.name, issue |-> "not in trunk mode",
                 interface |-> parsed[first][1], mode |-> mode] >>
        ELSE <<>>

\* the loop over trunk_ports.items()
RECURSIVE trunk_findings(_, _, _, _)
trunk_findings(device, parsed, trunk_ports, i) ==
    IF i > Len(trunk_ports) THEN <<>>
    ELSE trunk_port_findings(device, parsed, trunk_ports[i][1])
         \o trunk_findings(device, parsed, trunk_ports, i + 1)

\* the body of verify_trunk_ports for one device whose trunk_ports is not
\* empty: a query that raises is logged and the device is passed over
trunk_device_findings(device, answer) ==
    IF answer.raised THEN <<>>
    ELSE trunk_findings(device, answer.output, Get(device.custom, "trunk_ports", <<>>), 1)

\* VLANValidation.verify_trunk_ports, one device of vlan_devices
verify_trunk_ports ==
    /\ pc = "verify_trunk_ports"
    /\ LET device == self_attr.vlan_devices[cursor]
       IN  IF cursor \notin DOMAIN self_attr.vlan_devices
           THEN SectionEnd("verify_trunk_ports", "STPValidation.setup")
           ELSE IF Get(device.custom, "trunk_ports", <<>>) = <<>>
           THEN LoopStep(<<>>, <<>>, <<>>)
           ELSE \E answer \in TrunkAnswers :
                  LoopStep(trunk_device_findings(device, answer),
                           trunk_device_findings(device, answer),
                           << [device |-> device.name, answer |-> answer] >>)
    /\ UNCHANGED <<testbed, parameters, self_attr>>
    /\ UNCHANGED normvars

\* d.custom.get('stp_enabled', False)
is_stp_enabled(device) == Get(device.custom, "stp_enabled", FALSE)

\* STPValidation.setup
STPValidation_setup ==
    /\ pc = "STPValidation.setup"
    /\ LET stp_devices == SelectSeq(Get(parameters, "l2_devices", <<>>), is_stp_enabled)
       IN  /\ self_attr' = [stp_devices |-> stp_devices] @@ self_attr
           /\ SetupStep("STPValidation.setup", stp_devices = <<>>,
                        "verify_stp_mode", "PortChannelValidation.setup")
    /\ UNCHANGED <<testbed, parameters>>
    /\ UNCHANGED normvars

\* 'show spanning-tree summary' payloads
StpSummaryOutputs ==
    { <<>>,
      [mode |-> s_rapid_pvst],
      [mode |-> <<"P","V","S","T">>],
      [spanning_tree_mode |-> s_mst] }

StpSummaryAnswers == {Raised} \cup { Returned(o) : o \in StpSummaryOutputs }

\* the body of verify_stp_mode for one device
stp_mode_findings(device, answer) ==
    LET expected_mode == Get(device.custom, "stp_mode", s_rapid_pvst)
        parsed == answer.output
        mode == str_lower(Get(parsed, "mode", Get(parsed, "spanning_tree_mode", <<>>)))
    IN  IF answer.raised
        THEN << [device |-> device.name, error |-> "Failed to parse STP summary"] >>
        ELSE IF ~str_contains(mode, str_lower(expected_mode))
        THEN << [device |-> device.name, issue |-> "STP mode does not match expected",
                 mode |-> mode, expected_mode |-> expected_mode] >>
        ELSE <<>>

\* STPValidation.verify_stp_mode, one device of stp_devices
verify_stp_mode ==
    /\ pc = "verify_stp_mode"
    /\ LET device == self_attr.stp_devices[cursor]
       IN  IF cursor \notin DOMAIN self_attr.stp_devices
           THEN SectionEnd("verify_stp_mode", "verify_stp_port_states")
           ELSE \E answer \in StpSummaryAnswers :
                  LoopStep(stp_mode_findings(device, answer),
                           stp_mode_findings(device, answer),
                           << [device |-> device.name, answer |-> answer] >>)
    /\ UNCHANGED <<testbed, parameters, self_attr>>
    /\ UNCHANGED normvars

s_vlan10 == <<"v","l","a","n","1","0">>
s_vlan20 == <<"v","l","a","n","2","0">>
s_forwarding == <<"f","o","r","w","a","r","d","i","n","g">>
s_broken == <<"b","r","o","k","e","n">>
s_err_disabled == <<"e","r","r","-","d","i","s","a","b","l","e","d">>

\* 'show spanning-tree' payloads: the data of a VLAN is a dict, or a value
\* without get()
SpanningTreeOutputs ==
    { <<>>,
      << <<s_vlan10, <<>> >> >>,
      << <<s_vlan10, [interfaces |-> << <<s_Gi0_1, [port_state |-> s_forwarding]>> >>]>> >>,
      << <<s_vlan10, [interfaces |-> << <<s_Gi0_1, [port_state |-> <<"B","r","o","k","e","n">>]>>,
                                        <<s_Gi0_11, <<>> >> >>]>>,
         <<s_vlan20, [interfaces |-> << <<s_Gi0_1, [port_state |-> s_err_disabled]>> >>]>> >>,
      << <<s_vlan10, [interfaces |-> << <<s_Gi0_1, [port_state |-> s_broken]>> >>]>>,
         <<s_vlan20, Str(s_forwarding)>> >> }

SpanningTreeAnswers == {Raised} \cup { Returned(o) : o \in SpanningTreeOutputs }

\* the value has no get(): vlan_data.get raises AttributeError
is_not_dict(value) == DOMAIN value = {"type", "value"}

\* the loop over interfaces.items() of verify_stp_port_states
RECURSIVE interface_warnings(_, _, _, _)
interface_warnings(device, vlan_id, interfaces, k) ==
    IF k > Len(interfaces) THEN <<>>
    ELSE LET port_state == str_lower(Get(interfaces[k][2], "port_state", <<>>))
         IN  (IF port_state \in {s_broken, s_err_disabled}
              THEN << [device |-> device.name, interface |-> interfaces[k][1],
                       vlan |-> vlan_id, state |-> port_state] >>
              ELSE <<>>)
             \o interface_warnings(device, vlan_id, interfaces, k + 1)

\* the loop over parsed.items() of verify_stp_port_states
RECURSIVE vlan_warnings(_, _, _)
vlan_warnings(device, parsed, i) ==
    IF i > Len(parsed) THEN <<>>
    ELSE interface_warnings(device, parsed[i][1], Get(parsed[i][2], "interfaces", <<>>), 1)
         \o vlan_warnings(device, parsed, i + 1)

\* the body of verify_stp_port_states for one device: a query that raises
\* is logged and the device is passed over
port_state_warnings(device, answer) ==
    IF answer.raised THEN <<>> ELSE vlan_warnings(device, answer.output, 1)

\* the verdict at the end of promoting warnings to failures
warning_verdict_promoted(warnings) == Verdict(warnings)

\* the end of a checker that collects warnings: self.passed(...) with or
\* without warnings, or a return without a verdict call
warning_verdict(warnings) == "Passed"

\* the end of a test section that collects warnings
WarningSectionEnd(section, next) ==
    /\ result' = [result EXCEPT ![section] =
                     IF cursor = 0 THEN "Errored" ELSE warning_verdict(failed)]
    /\ pc' = next
    /\ cursor' = 1
    /\ failed' = <<>>
    /\ details' = <<>>
    /\ observed' = <<>>
    /\ visited' = <<>>

\* STPValidation.verify_stp_port_states, one device of stp_devices; the
\* running list is the list of warnings
verify_stp_port_states ==
    /\ pc = "verify_stp_port_states"
    /\ LET device == self_attr.stp_devices[cursor]
       IN  IF cursor \notin DOMAIN self_attr.stp_devices
           THEN WarningSectionEnd("verify_stp_port_states", "PortChannelValidation.setup")
           ELSE \E answer \in SpanningTreeAnswers :
                  IF ~answer.raised
                     /\ \E i \in DOMAIN answer.output : is_not_dict(answer.output[i][2])
                  THEN LoopAbort(<<>>, << [device |-> device.name, answer |-> answer] >>)
                  ELSE LoopStep(port_state_warnings(device, answer),
                                port_state_warnings(device, answer),
                                << [device |-> device.name, answer |-> answer] >>)
    /\ UNCHANGED <<testbed, parameters, self_attr>>
    /\ UNCHANGED normvars

\* d.custom.get('port_channels') is truthy
has_port_channels(device) == Get(device.custom, "port_channels", <<>>) # <<>>

\* PortChannelValidation.setup
PortChannelValidation_setup ==
    /\ pc = "PortChannelValidation.setup"
    /\ LET pc_devices == SelectSeq(Get(parameters, "l2_devices", <<>>), has_port_channels)
       IN  /\ self_attr' = [pc_devices |-> pc_devices] @@ self_attr
           /\ SetupStep("PortChannelValidation.setup", pc_devices = <<>>,
                        "verify_port_channel_status", "done")
    /\ UNCHANGED <<testbed, parameters>>
    /\ UNCHANGED normvars

s_Port_channel == <<"P","o","r","t","-","c","h","a","n","n","e","l">>
s_connected == <<"c","o","n","n","e","c","t","e","d">>

\* f"Port-channel{pc_id}"
port_channel_name(pc_id) == s_Port_channel \o str_int(pc_id)

\* the member ports of a bundle
Members == << <<s_Gi0_1, <<>> >> >>

\* 'show etherchannel summary' payloads
EtherchannelOutputs ==
    { <<>>,
      [interfaces |-> << <<port_channel_name(1), [oper_status |-> s_up, members |-> Members]>> >>],
      [interfaces |-> << <<port_channel_name(1), [oper_status |-> s_down]>> >>],
      [interfaces |-> << <<port_channel_name(10), [oper_status |-> s_up, members |-> Members]>> >>],
      [interfaces |-> << <<port_channel_name(2), [oper_status |-> s_down, members |-> Members]>>,
                         <<str_lower(port_channel_name(1)),
                           [oper_status |-> <<"C","o","n","n","e","c","t","e","d">>,
                            members |-> <<>>]>> >>] }

EtherchannelAnswers == {Raised} \cup { Returned(o) : o \in EtherchannelOutputs }

\* the entries of interfaces whose name contains pc_name, letter case aside
port_channel_matches(interfaces, pc_name) ==
    { i \in DOMAIN interfaces : str_contains(str_lower(interfaces[i][1]), str_lower(pc_name)) }

\* the search through interfaces for one expected port channel: the first
\* matching entry decides
port_channel_findings(device, interfaces, pc_id) ==
    LET matches == port_channel_matches(interfaces, port_channel_name(pc_id))
        first == CHOOSE i \in matches : \A j \in matches : i <= j
        intf_name == interfaces[first][1]
        intf_data == interfaces[first][2]
        oper_status == str_lower(Get(intf_data, "oper_status", <<>>))
    IN  IF matches = {}
        THEN << [device |-> device.name, pc_id |-> pc_id, issue |-> "not found"] >>
        ELSE (IF oper_status \notin {s_up, s_connected}
              THEN << [device |-> device.name, pc_id |-> pc_id, interface |-> intf_name,
                       issue |-> "is not up", oper_status |-> oper_status] >>
              ELSE <<>>)
             \o (IF Get(intf_data, "members", <<>>) = <<>>
                 THEN << [device |-> device.name, pc_id |-> pc_id, interface |-> intf_name,
                          issue |-> "has no member ports"] >>
                 ELSE <<>>)

\* the loop over expected_pcs
RECURSIVE port_channels_findings(_, _, _, _)
port_channels_findings(device, interfaces, expected_pcs, i) ==
    IF i > Len(expected_pcs) THEN <<>>
    ELSE port_channel_findings(device, interfaces, expected_pcs[i])
         \o port_channels_findings(device, interfaces, expected_pcs, i + 1)

\* the body of verify_port_channel_status for one device
port_channel_device_findings(device, answer) ==
    IF answer.raised
    THEN << [device |-> device.name, error |-> "Failed to parse port-channel info"] >>
    ELSE port_channels_findings(device, Get(answer.output, "interfaces", <<>>),
                                Get(device.custom, "port_channels", <<>>), 1)

\* PortChannelValidation.verify_port_channel_status, one device of pc_devices
verify_port_channel_status ==
    /\ pc = "verify_port_channel_status"
    /\ LET device == self_attr.pc_devices[cursor]
       IN  IF cursor \notin DOMAIN self_attr.pc_devices
           THEN SectionEnd("verify_port_channel_status", "done")
           ELSE \E answer \in EtherchannelAnswers :
                  LoopStep(port_channel_device_findings(device, answer),
                           port_channel_device_findings(device, answer),
                           << [device |-> device.name, answer |-> answer] >>)
    /\ UNCHANGED <<testbed, parameters, self_attr>>
    /\ UNCHANGED normvars

L2Next ==
    \/ mark_l2_devices
    \/ VLANValidation_setup
    \/ verify_vlan_existence
    \/ verify_vlan_state
    \/ verify_trunk_ports
    \/ STPValidation_setup
    \/ verify_stp_mode
    \/ verify_stp_port_states
    \/ PortChannelValidation_setup
    \/ verify_port_channel_status

SpecL2 == L2Init /\ [][L2Next]_vars

\* the element the last iteration of the running checker's loop evaluated
LastVisited == visited[Len(visited)]

\* an iteration of verify_vlan_existence has just ended
AfterVlanExistenceStep == pc = "verify_vlan_existence" /\ cursor > 1

(***************************************************************************)
(* C2: in a set-membership checker, for a device with a non-empty expected *)
(* list and a successful query, the elements reported missing are exactly  *)
(* the expected ones that were not observed, each named once; an observed  *)
(* element that is not expected produces no finding; and the device adds   *)
(* to the failure list, which makes the checker end Failed, iff something  *)
(* is missing.  Stated of verify_vlan_existence.                           *)
(***************************************************************************)
C2_MissingIsExpectedMinusObserved ==
    AfterVlanExistenceStep =>
      LET device == self_attr.vlan_devices[LastVisited]
          answer == observed[1].answer
          expected == SeqToSet(device.custom.expected_vlans)
          existing == SeqToSet(Keys(Get(answer.output, "vlans", <<>>)))
          difference == { v \in expected : str_int(v) \notin existing }
      IN  /\ ~answer.raised =>
               /\ { details[i].vlan : i \in DOMAIN details } = difference
               /\ Len(details) = Cardinality(difference)
               /\ (details # <<>>) = (difference # {})
               /\ \A i \in DOMAIN details : details[i] \in SeqToSet(failed)

\* verify_trunk_ports has reached its verdict
AfterTrunkPorts == result["verify_trunk_ports"] # "NotRun"

(***************************************************************************)
(* C4: a checker for which no device has an applicable expectation ends    *)
(* Skipped and never Failed: when no device of vlan_devices declares       *)
(* trunk_ports, verify_trunk_ports ends Skipped.                           *)
(***************************************************************************)
C4_NoApplicableDeviceSkipped ==
    AfterTrunkPorts
      /\ (\A i \in DOMAIN self_attr.vlan_devices :
            Get(self_attr.vlan_devices[i].custom, "trunk_ports", <<>>) = <<>>)
    => result["verify_trunk_ports"] = "Skipped"

\* the checkers of the layer-2 suite that accumulate a failure list, and the
\* list of devices each one loops over
L2FailureCheckers ==
    { "verify_vlan_existence", "verify_vlan_state", "verify_trunk_ports",
      "verify_stp_mode", "verify_port_channel_status" }

L2LoopList(section) ==
    CASE section \in {"verify_vlan_existence", "verify_vlan_state", "verify_trunk_ports"}
           -> self_attr.vlan_devices
      [] section \in {"verify_stp_mode", "verify_stp_port_states"} -> self_attr.stp_devices
      [] section = "verify_port_channel_status" -> self_attr.pc_devices

\* the position of the device of that name in the testbed
DeviceIndex(name) == CHOOSE i \in DOMAIN testbed.devices : testbed.devices[i].name = name

\* the position of a port channel in the port_channels list of its device
PortChannelIndex(finding) ==
    LET expected_pcs == DeviceNamed(finding.device).custom.port_channels
    IN  CHOOSE k \in DOMAIN expected_pcs : expected_pcs[k] = finding.pc_id

\* the failure list names devices in the order the loop met them, the
\* findings of one device next to each other, and the port channels of a
\* device in the order of its port_channels list
FindingsInEncounterOrder ==
    pc \in L2FailureCheckers =>
      \A i, j \in DOMAIN failed : i < j =>
        /\ DeviceIndex(failed[i].device) <= DeviceIndex(failed[j].device)
        /\ failed[i].device = failed[j].device
             /\ "pc_id" \in DOMAIN failed[i] /\ "pc_id" \in DOMAIN failed[j]
           => PortChannelIndex(failed[i]) <= PortChannelIndex(failed[j])

\* a checker has no verdict while its loop runs; it gets one when the loop
\* has visited every device: Passed for an empty failure list, else Failed
VerdictOfFailureList ==
    \A section \in L2FailureCheckers :
      /\ pc = section => result[section] = "NotRun"
      /\ pc = section /\ pc' # section =>
           /\ Len(visited) = Len(L2LoopList(section))
           /\ (result'[section] = "Passed") = (failed = <<>>)
           /\ (result'[section] = "Failed") = (failed # <<>>)

(***************************************************************************)
(* C11: a checker that accumulates a failure list ends Passed iff the list *)
(* is empty after all devices were visited and Failed iff it is non-empty, *)
(* and the failure list holds the findings in the order the devices and    *)
(* their entities were encountered, all findings of one device adjacent.   *)
(***************************************************************************)
C11_VerdictAndOrderOfFailureList ==
    []FindingsInEncounterOrder /\ [][VerdictOfFailureList]_vars

\* verify_port_channel_status has findings about two devices, two of them
\* about different port channels of one device
C11_FindingsOfTwoDevices ==
    /\ pc = "verify_port_channel_status"
    /\ \E i, j \in DOMAIN failed : failed[i].device # failed[j].device
    /\ \E i, j \in DOMAIN failed :
         /\ failed[i].device = failed[j].device
         /\ "pc_id" \in DOMAIN failed[i] /\ "pc_id" \in DOMAIN failed[j]
         /\ failed[i].pc_id # failed[j].pc_id

(***************************************************************************)
(* layer1_tests.py                                                         *)
(***************************************************************************)
MaxLinks == 2       \* a testbed topology has 1..MaxLinks links

\* optical thresholds by SFP type, in tenths of a dBm
SFP_THRESHOLDS ==
    [t \in {"SFP-10G-SR", "SFP-10G-LR", "SFP-10G-ER", "SFP-1G-SX", "SFP-1G-LX"} |->
        CASE t = "SFP-10G-SR" -> [rx_min |-> -95, rx_max |-> 20]
          [] t = "SFP-10G-LR" -> [rx_min |-> -144, rx_max |-> 5]
          [] t = "SFP-10G-ER" -> [rx_min |-> -158, rx_max |-> -10]
          [] t = "SFP-1G-SX" -> [rx_min |-> -170, rx_max |-> 0]
          [] t = "SFP-1G-LX" -> [rx_min |-> -190, rx_max |-> -30]]

s_sw1 == <<"s","w","1">>
s_sw2 == <<"s","w","2">>
s_sw3 == <<"s","w","3">>
s_Gi0_2 == <<"G","i","0","/","2">>
s_Gi0_3 == <<"G","i","0","/","3">>
s_Gi0_4 == <<"G","i","0","/","4">>

\* an interface of the topology: its device, its name and the attributes the
\* testbed file gives it
Interface(device, name, attrs) == [device |-> device, name |-> name, attrs |-> attrs]

\* the links a testbed topology is made of
LinkChoices ==
    { [name |-> "sw1-sw2",
       interfaces |-> << Interface(s_sw1, s_Gi0_1, [sfp_type |-> "SFP-10G-SR"]),
                         Interface(s_sw2, s_Gi0_2, [sfp_type |-> "SFP-10G-LR"]) >>],
      [name |-> "sw1-sw3",
       interfaces |-> << Interface(s_sw1, s_Gi0_3, [sfp_type |-> "SFP-10G-ER"]),
                         Interface(s_sw3, s_Gi0_1, <<>>) >>],
      [name |-> "sw2-stub",
       interfaces |-> << Interface(s_sw2, s_Gi0_4, [sfp_type |-> "QSFP-40G-SR4"]) >>] }

L1Sections ==
    { "LinkHealth.setup", "check_link_status", "check_link_optical_levels",
      "check_link_cdp" }

L1Init ==
    /\ \E n \in 0..MaxLinks : \E links \in [1..n -> LinkChoices] :
         /\ \A i, j \in 1..n : links[i] = links[j] => i = j
         /\ testbed = [devices |-> <<>>, links |-> links]
    /\ parameters = <<>>
    /\ self_attr = <<>>
    /\ pc = "LinkHealth.setup"
    /\ cursor = 1
    /\ failed = <<>>
    /\ details = <<>>
    /\ observed = <<>>
    /\ visited = <<>>
    /\ result = [s \in L1Sections |-> "NotRun"]
    /\ NormIdle

\* LinkHealth.setup
LinkHealth_setup ==
    /\ pc = "LinkHealth.setup"
    /\ self_attr' = [links |-> testbed.links]
    /\ SetupStep("LinkHealth.setup", testbed.links = <<>>, "check_link_status", "done")
    /\ UNCHANGED <<testbed, parameters>>
    /\ UNCHANGED normvars

\* d.get(k, default) on a dict modelled as a sequence of <<key, value>> pairs
DictGet(d, k, default) == IF k \in SeqToSet(Keys(d)) THEN Lookup(d, k) ELSE default

\* the first query that raised, 0 if none did
first_raised(answers) ==
    IF \E k \in DOMAIN answers : answers[k].raised
    THEN CHOOSE k \in DOMAIN answers :
           answers[k].raised /\ \A j \in DOMAIN answers : answers[j].raised => k <= j
    ELSE 0

\* the queries issued for the first n interfaces of a link
link_queries(link, answers, n) ==
    [k \in 1..n |-> [device |-> link.interfaces[k].device,
                     intf |-> link.interfaces[k].name, answer |-> answers[k]]]

\* the entry a link with findings adds to failed_links
link_entry(link, link_details) ==
    IF link_details # <<>> THEN << [link |-> link.name, details |-> link_details] >> ELSE <<>>

\* LinkHealth._get_interface_data on an answer that did not raise
get_interface_data(answer, intf_name) == DictGet(answer.output, intf_name, <<>>)

\* 'show interfaces <name>' payloads
ShowInterfaceAnswers(intf_name) ==
    { Raised, Returned(<<>>) } \cup
    { Returned(<< <<intf_name, data>> >>) :
        data \in { [oper_status |-> s_up, line_protocol |-> s_up],
                   [oper_status |-> <<"U","p">>, line_protocol |-> s_down],
                   [oper_status |-> s_down] } }

\* the body of check_link_status for the interfaces k..n of a link
RECURSIVE status_details(_, _, _, _)
status_details(link, answers, k, n) ==
    IF k > n THEN <<>>
    ELSE LET intf == link.interfaces[k]
             intf_data == get_interface_data(answers[k], intf.name)
             oper_status == str_lower(Get(intf_data, "oper_status", <<>>))
             line_protocol == str_lower(Get(intf_data, "line_protocol", <<>>))
         IN  (IF oper_status # s_up \/ line_protocol # s_up
              THEN << [device |-> intf.device, intf |-> intf.name,
                       oper_status |-> oper_status, line_protocol |-> line_protocol] >>
              ELSE <<>>)
             \o status_details(link, answers, k + 1, n)

\* LinkHealth.check_link_status, one link of self.links: a query that raises
\* is not caught and ends the section
check_link_status ==
    /\ pc = "check_link_status"
    /\ LET link == self_attr.links[cursor]
           n == Len(link.interfaces)
       IN  IF cursor \notin DOMAIN self_attr.links
           THEN SectionEnd("check_link_status", "check_link_optical_levels")
           ELSE \E answers \in [1..n -> UNION { ShowInterfaceAnswers(link.interfaces[k].name) : k \in 1..n }] :
                  /\ \A k \in 1..n : answers[k] \in ShowInterfaceAnswers(link.interfaces[k].name)
                  /\ LET r == first_raised(answers)
                     IN  IF r = 0
                         THEN LoopStep(link_entry(link, status_details(link, answers, 1, n)),
                                       status_details(link, answers, 1, n),
                                       link_queries(link, answers, n))
                         ELSE /\ \A k \in (r + 1)..n : answers[k] = Raised
                              /\ LoopAbort(status_details(link, answers, 1, r - 1),
                                           link_queries(link, answers, r))
    /\ UNCHANGED <<testbed, parameters, self_attr>>
    /\ UNCHANGED normvars

IsDigit(c) == \E d \in 0..9 : Digit(d) = c
DigitValue(c) == CHOOSE d \in 0..9 : Digit(d) = c

\* int(text) for a text of digits
RECURSIVE int_of(_)
int_of(text) ==
    IF text = <<>> THEN 0
    ELSE int_of(SubSeq(text, 1, Len(text) - 1)) * 10 + DigitValue(text[Len(text)])

\* float(text) for a str: decimal literals with at most one fractional digit
\* convert, in tenths; any other text raises ValueError
float_of_str(text) ==
    LET negative == text # <<>> /\ text[1] = "-"
        body == IF negative THEN Tail(text) ELSE text
        dots == { i \in DOMAIN body : body[i] = "." }
        dot == IF dots = {} THEN Len(body) + 1
               ELSE CHOOSE i \in dots : \A j \in dots : i <= j
        whole == SubSeq(body, 1, dot - 1)
        frac == SubSeq(body, dot + 1, Len(body))
        numeric == /\ whole # <<>>
                   /\ Len(frac) <= 1
                   /\ \A i \in DOMAIN whole : IsDigit(whole[i])
                   /\ \A i \in DOMAIN frac : IsDigit(frac[i])
        magnitude == int_of(whole) * 10 + (IF frac = <<>> THEN 0 ELSE DigitValue(frac[1]))
    IN  IF numeric
        THEN [raised |-> FALSE, value |-> IF negative THEN 0 - magnitude ELSE magnitude]
        ELSE [raised |-> TRUE, value |-> 0]

\* float(x)
to_float(x) ==
    IF x.type = "float" THEN [raised |-> FALSE, value |-> x.value] ELSE float_of_str(x.value)

\* the text a device prints for a power given in tenths of a dBm
decimal_text(tenths) ==
    LET magnitude == IF tenths < 0 THEN 0 - tenths ELSE tenths
    IN  (IF tenths < 0 THEN <<"-">> ELSE <<>>)
        \o str_int(magnitude \div 10) \o <<".">> \o <<Digit(magnitude % 10)>>

\* the RX powers a transceiver with these thresholds may report
RxPowers(thresholds) ==
    { Float(thresholds.rx_min - 1), Float(thresholds.rx_min), Float(thresholds.rx_max),
      Float(thresholds.rx_max + 1), Str(decimal_text(thresholds.rx_min)),
      Str(<<"N","/","A">>) }

\* 'show controllers optics <name>' payloads
OpticsAnswers(intf_name, thresholds) ==
    { Raised, Returned(<<>>), Returned(<< <<intf_name, [optics |-> <<>>]>> >>),
      Returned(<< <<intf_name, [optics |-> [receive_power |-> Float(thresholds.rx_max + 1)]]>> >>) }
    \cup { Returned(<< <<intf_name, [optics |-> [rx_power |-> v]]>> >>) : v \in RxPowers(thresholds) }

\* sfp_type is set and SFP_THRESHOLDS has an entry for it
has_thresholds(intf) ==
    /\ "sfp_type" \in DOMAIN intf.attrs
    /\ intf.attrs.sfp_type # ""
    /\ intf.attrs.sfp_type \in DOMAIN SFP_THRESHOLDS

\* the range test with exclusive bounds
rx_within_strict(thresholds, rx_power) ==
    thresholds.rx_min < rx_power /\ rx_power < thresholds.rx_max

\* thresholds['rx_min'] <= rx_power <= thresholds['rx_max']
rx_within(thresholds, rx_power) ==
    thresholds.rx_min <= rx_power /\ rx_power <= thresholds.rx_max

\* the body of check_link_optical_levels for one interface that has
\* thresholds: the findings it adds, and whether float(rx_power) raised
optical_endpoint(intf, answer) ==
    LET thresholds == SFP_THRESHOLDS[intf.attrs.sfp_type]
        intf_data == DictGet(answer.output, intf.name, <<>>)
        optics == Get(intf_data, "optics", <<>>)
        reported == "rx_power" \in DOMAIN optics \/ "receive_power" \in DOMAIN optics
        rx_power == to_float(IF "rx_power" \in DOMAIN optics
                             THEN optics.rx_power ELSE optics.receive_power)
    IN  IF answer.raised \/ ~reported
        THEN [raised |-> FALSE, details |-> <<>>]
        ELSE IF rx_power.raised
        THEN [raised |-> TRUE, details |-> <<>>]
        ELSE IF ~rx_within(thresholds, rx_power.value)
        THEN [raised |-> FALSE,
              details |-> << [device |-> intf.device, intf |-> intf.name,
                              rx_power |-> rx_power.value,
                              rx_min |-> thresholds.rx_min,
                              rx_max |-> thresholds.rx_max] >>]
        ELSE [raised |-> FALSE, details |-> <<>>]

\* the loop over link.interfaces of check_link_optical_levels from interface
\* k on: the findings, the queries issued, and whether an exception ended it
RECURSIVE optical_details(_, _, _)
optical_details(link, answers, k) ==
    IF k > Len(link.interfaces)
    THEN [raised |-> FALSE, details |-> <<>>, queries |-> <<>>]
    ELSE LET intf == link.interfaces[k]
             rest == optical_details(link, answers, k + 1)
             here == optical_endpoint(intf, answers[k])
             query == << [device |-> intf.device, intf |-> intf.name,
                          answer |-> answers[k]] >>
         IN  IF ~has_thresholds(intf) THEN rest
             ELSE IF here.raised
             THEN [raised |-> TRUE, details |-> <<>>, queries |-> query]
             ELSE [raised |-> rest.raised, details |-> here.details \o rest.details,
                   queries |-> query \o rest.queries]

\* the answers to the queries of one link; an interface that is not queried
\* has no answer
OpticsAnswersOf(intf) ==
    IF has_thresholds(intf)
    THEN OpticsAnswers(intf.name, SFP_THRESHOLDS[intf.attrs.sfp_type])
    ELSE { Returned(<<>>) }

\* LinkHealth.check_link_optical_levels, one link of self.links
check_link_optical_levels ==
    /\ pc = "check_link_optical_levels"
    /\ LET link == self_attr.links[cursor]
           n == Len(link.interfaces)
       IN  IF cursor \notin DOMAIN self_attr.links
           THEN SectionEnd("check_link_optical_levels", "check_link_cdp")
           ELSE \E answers \in [1..n -> UNION { OpticsAnswersOf(link.interfaces[k]) : k \in 1..n }] :
                  /\ \A k \in 1..n : answers[k] \in OpticsAnswersOf(link.interfaces[k])
                  /\ LET run == optical_details(link, answers, 1)
                     IN  IF run.raised
                         THEN LoopAbort(run.details, run.queries)
                         ELSE LoopStep(link_entry(link, run.details), run.details,
                                       run.queries)
    /\ UNCHANGED <<testbed, parameters, self_attr>>
    /\ UNCHANGED normvars

\* s.split(sep)[0]
split_first(text, sep) ==
    LET seps == { i \in DOMAIN text : text[i] = sep }
    IN  IF seps = {} THEN text
        ELSE SubSeq(text, 1, (CHOOSE i \in seps : \A j \in seps : i <= j) - 1)

\* 'show cdp neighbors detail' payloads of the device of local_intf
CdpAnswers(local_intf, remote_intf) ==
    { Raised, Returned(<<>>) } \cup
    { Returned([index |-> << <<1, [local_interface |-> local_intf.name,
                                   device_id |-> device_id, port_id |-> port_id]>> >>]) :
        device_id \in { remote_intf.device \o <<".","l","a","b">> },
        port_id \in { str_upper(remote_intf.name), <<"G","i","0","/","9">> } } \cup
    { Returned([index |-> << <<1, [local_interface |-> local_intf.name,
                                   device_id |-> device_id,
                                   port_id |-> remote_intf.name]>> >>]) :
        device_id \in { <<"s","w","9">>, remote_intf.device \o <<"0",".","l","a","b">> } }

\* the index entries whose local_interface contains local_name, case aside
cdp_matches(index, local_name) ==
    { i \in DOMAIN index :
        str_contains(str_lower(Get(index[i][2], "local_interface", <<>>)),
                     str_lower(local_name)) }

\* the body of check_link_cdp for one direction of a link
cdp_direction_details(local_intf, remote_intf, answer) ==
    LET index == Get(answer.output, "index", <<>>)
        matches == cdp_matches(index, local_intf.name)
        neighbor == index[CHOOSE i \in matches : \A j \in matches : i <= j][2]
        cdp_neighbor == split_first(Get(neighbor, "device_id", <<>>), ".")
        cdp_port == Get(neighbor, "port_id", <<>>)
    IN  IF answer.raised
        THEN << [device |-> local_intf.device, issue |-> "CDP parse failed"] >>
        ELSE IF matches = {}
        THEN << [device |-> local_intf.device, intf |-> local_intf.name,
                 issue |-> "no CDP neighbor found"] >>
        ELSE IF ~str_contains(str_lower(cdp_neighbor), str_lower(remote_intf.device))
        THEN << [device |-> local_intf.device, intf |-> local_intf.name,
                 issue |-> "CDP neighbor", cdp_neighbor |-> cdp_neighbor,
                 expected_neighbor |-> remote_intf.device] >>
        ELSE IF ~str_contains(str_lower(cdp_port), str_lower(remote_intf.name))
        THEN << [device |-> local_intf.device, intf |-> local_intf.name,
                 issue |-> "CDP port", cdp_port |-> cdp_port,
                 expected_port |-> remote_intf.name] >>
        ELSE <<>>

\* the two directions, the second one only when the first one agreed
cdp_link_details_first_only(link, answers) ==
    LET forth == cdp_direction_details(link.interfaces[1], link.interfaces[2], answers[1])
    IN  IF forth # <<>> THEN forth
        ELSE cdp_direction_details(link.interfaces[2], link.interfaces[1], answers[2])

\* for local_intf, remote_intf in [(intf_a, intf_b), (intf_b, intf_a)]
cdp_link_details(link, answers) ==
    cdp_direction_details(link.interfaces[1], link.interfaces[2], answers[1])
    \o cdp_direction_details(link.interfaces[2], link.interfaces[1], answers[2])

\* LinkHealth.check_link_cdp, one link of self.links
check_link_cdp ==
    /\ pc = "check_link_cdp"
    /\ LET link == self_attr.links[cursor]
       IN  IF cursor \notin DOMAIN self_attr.links
           THEN SectionEnd("check_link_cdp", "done")
           ELSE IF Len(link.interfaces) # 2
           THEN LoopStep(<<>>, <<>>, <<>>)
           ELSE \E forth \in CdpAnswers(link.interfaces[1], link.interfaces[2]) :
                \E back \in CdpAnswers(link.interfaces[2], link.interfaces[1]) :
                  LoopStep(link_entry(link, cdp_link_details(link, <<forth, back>>)),
                           cdp_link_details(link, <<forth, back>>),
                           link_queries(link, <<forth, back>>, 2))
    /\ UNCHANGED <<testbed, parameters, self_attr>>
    /\ UNCHANGED normvars

L1Next ==
    \/ LinkHealth_setup
    \/ check_link_status
    \/ check_link_optical_levels
    \/ check_link_cdp

SpecL1 == L1Init /\ [][L1Next]_vars

\* the loop of that checker has evaluated an element
Stepped(section) == pc = section /\ visited # <<>>

\* the link the last iteration evaluated
LastLink == self_attr.links[LastVisited]

\* the findings of the last iteration about the endpoint a query went to
FindingsAbout(query) ==
    { i \in DOMAIN details :
        details[i].device = query.device /\ details[i].intf = query.intf }

\* a direction of a link agrees with CDP: the device answered, it has an
\* entry for the local interface, and the entry names the remote device and
\* the remote port
CdpAgrees(local_intf, remote_intf, answer) ==
    /\ ~answer.raised
    /\ LET index == Get(answer.output, "index", <<>>)
           matches == cdp_matches(index, local_intf.name)
           neighbor == index[CHOOSE i \in matches : \A j \in matches : i <= j][2]
       IN  /\ matches # {}
           /\ str_contains(str_lower(split_first(neighbor.device_id, ".")),
                           str_lower(remote_intf.device))
           /\ str_contains(str_lower(neighbor.port_id), str_lower(remote_intf.name))

(***************************************************************************)
(* C3: check_link_cdp evaluates both directions of every two-endpoint      *)
(* link, records exactly one finding for each direction that disagrees and *)
(* none for a direction that agrees, and the link is added to the failed   *)
(* links iff a direction produced a finding.                               *)
(***************************************************************************)
C3_BothDirectionsOneFindingEach ==
    Stepped("check_link_cdp") /\ Len(LastLink.interfaces) = 2 =>
      LET ends == LastLink.interfaces
      IN  /\ Len(observed) = 2
          /\ \A k \in 1..2 :
               /\ observed[k].device = ends[k].device
               /\ Cardinality({ i \in DOMAIN details : details[i].device = ends[k].device })
                    = IF CdpAgrees(ends[k], ends[3 - k], observed[k].answer) THEN 0 ELSE 1
          /\ (\E i \in DOMAIN failed : failed[i].link = LastLink.name) = (details # <<>>)

\* both directions of a link disagreed and each has its finding
C3_BothDirectionsDisagree ==
    /\ Stepped("check_link_cdp")
    /\ Len(LastLink.interfaces) = 2
    /\ Len(details) = 2
    /\ details[1].device = LastLink.interfaces[1].device
    /\ details[2].device = LastLink.interfaces[2].device
    /\ \E i \in DOMAIN failed : failed[i].link = LastLink.name

(***************************************************************************)
(* C5: a query that raises for an endpoint becomes a finding for that      *)
(* endpoint, the checker goes on with the remaining links and reaches its  *)
(* own Passed or Failed verdict.  Stated of check_link_status.             *)
(***************************************************************************)
C5_QueryErrorBecomesFinding ==
    /\ result["check_link_status"] \in {"NotRun", "Passed", "Failed"}
    /\ Stepped("check_link_status") =>
         /\ cursor # 0
         /\ \A q \in DOMAIN observed :
              observed[q].answer.raised => FindingsAbout(observed[q]) # {}

(***************************************************************************)
(* C6: a checker never ends Passed when the query to a device that has an  *)
(* applicable expectation failed: check_link_optical_levels does not end   *)
(* Passed when a query of the last link it evaluated raised.               *)
(***************************************************************************)
C6_NoPassAfterFailedQuery ==
    [][ pc = "check_link_optical_levels"
        /\ result'["check_link_optical_levels"] = "Passed"
        /\ result["check_link_optical_levels"] # "Passed"
        => \A q \in DOMAIN observed : ~observed[q].answer.raised ]_vars

\* the interface of the last link a query went to
EndpointOf(query) ==
    CHOOSE intf \in SeqToSet(LastLink.interfaces) :
        intf.device = query.device /\ intf.name = query.intf

\* the optics a 'show controllers optics' answer holds for the interface
OpticsOf(query) ==
    Get(DictGet(query.answer.output, query.intf, <<>>), "optics", <<>>)

\* the answer reports an RX power
ReportsPower(query) ==
    /\ ~query.answer.raised
    /\ "rx_power" \in DOMAIN OpticsOf(query) \/ "receive_power" \in DOMAIN OpticsOf(query)

\* the RX power an answer reports, as float() converts it
PowerOf(query) ==
    to_float(IF "rx_power" \in DOMAIN OpticsOf(query)
             THEN OpticsOf(query).rx_power ELSE OpticsOf(query).receive_power)

(***************************************************************************)
(* C7: for an endpoint with a known SFP type that reports a numeric RX     *)
(* power, check_link_optical_levels records a finding iff the power is     *)
(* strictly below rx_min or strictly above rx_max of the SFP type; a power *)
(* equal to rx_min or to rx_max produces no finding.                       *)
(***************************************************************************)
C7_FindingIffOutsideInclusiveRange ==
    Stepped("check_link_optical_levels") =>
      \A q \in DOMAIN observed :
        ReportsPower(observed[q]) /\ ~PowerOf(observed[q]).raised =>
          LET thresholds == SFP_THRESHOLDS[EndpointOf(observed[q]).attrs.sfp_type]
              power == PowerOf(observed[q]).value
          IN  (FindingsAbout(observed[q]) # {})
                = (power < thresholds.rx_min \/ power > thresholds.rx_max)

\* an endpoint reported exactly rx_min or rx_max and has no finding, while
\* the other endpoint of the link is out of range and has one
C7_PowerAtThreshold ==
    /\ Stepped("check_link_optical_levels")
    /\ \E q \in DOMAIN observed :
         /\ ReportsPower(observed[q]) /\ ~PowerOf(observed[q]).raised
         /\ PowerOf(observed[q]).value \in
              { SFP_THRESHOLDS[EndpointOf(observed[q]).attrs.sfp_type].rx_min,
                SFP_THRESHOLDS[EndpointOf(observed[q]).attrs.sfp_type].rx_max }
         /\ FindingsAbout(observed[q]) = {}
    /\ details # <<>>

(***************************************************************************)
(* C8: an RX power that is reported but not numeric gets a finding of its  *)
(* own for the endpoint, check_link_optical_levels is not ended by an      *)
(* uncaught error and ends Failed or Passed, and the remaining endpoints   *)
(* and links are still evaluated.                                          *)
(***************************************************************************)
C8_NonNumericPowerIsFinding ==
    /\ result["check_link_optical_levels"] # "Errored"
    /\ Stepped("check_link_optical_levels") =>
         /\ cursor # 0
         /\ \A q \in DOMAIN observed :
              ReportsPower(observed[q]) /\ PowerOf(observed[q]).raised
                => FindingsAbout(observed[q]) # {}

\* one step of the status of every section: a section that has its verdict
\* keeps it, Skipped is given only before the checker evaluated anything, and
\* a verdict, when it comes, is Skipped, Passed or Failed
StatusStep ==
    \A section \in DOMAIN result :
      /\ result[section] \in {"Skipped", "Passed", "Failed"}
           => result'[section] = result[section]
      /\ result[section] = "NotRun" /\ result'[section] = "Skipped" => visited = <<>>
      /\ result[section] = "NotRun" /\ result'[section] # "NotRun"
           => result'[section] \in {"Skipped", "Passed", "Failed"}

(***************************************************************************)
(* C13: the status of each checker follows NotRun -> (Skipped | Running)   *)
(* -> (Passed | Failed): Skipped is entered only from NotRun, before the   *)
(* checker has evaluated anything; a checker that started running ends     *)
(* Passed or Failed; and Skipped, Passed and Failed are never left.        *)
(***************************************************************************)
C13_CheckerStateMachine == [][StatusStep]_vars

(***************************************************************************)
(* tests/layer3/test_ospf_health.py                                        *)
(***************************************************************************)
\* the concatenation of a list of lists: what nested loops over dicts visit
RECURSIVE Concat(_)
Concat(lists) == IF lists = <<>> THEN <<>> ELSE Head(lists) \o Concat(Tail(lists))

\* the items of the dict under key, none if the key is absent
ItemsUnder(d, key) == IF key \in DOMAIN d THEN d[key] ELSE <<>>

\* the <<instance_id, inst_data>> pairs the loops over vrf, address_family
\* and instance visit
ospf_instances(output) ==
    Concat([v \in DOMAIN ItemsUnder(output, "vrf") |->
      LET address_family == ItemsUnder(output.vrf[v][2], "address_family")
      IN  Concat([a \in DOMAIN address_family |->
                    ItemsUnder(address_family[a][2], "instance")])])

\* the <<intf, intf_data>> pairs the loops over areas and interfaces visit
ospf_area_interfaces(output) ==
    LET instances == ospf_instances(output)
    IN  Concat([n \in DOMAIN instances |->
          LET areas == ItemsUnder(instances[n][2], "areas")
          IN  Concat([r \in DOMAIN areas |-> ItemsUnder(areas[r][2], "interfaces")])])

\* a payload in the VRF structure with these instances
OspfVrf(instances) ==
    [vrf |-> << <<"default",
        [address_family |-> << <<"ipv4", [instance |-> instances]>> >>]>> >>]

\* a payload in the VRF structure with these interfaces in area 0
OspfAreas(interfaces) ==
    OspfVrf(<< <<"1", [areas |-> << <<"0.0.0.0", [interfaces |-> interfaces]>> >>]>> >>)

s_10_0_0_0 == <<"1","0",".","0",".","0",".","0">>
s_10_0_0_1 == <<"1","0",".","0",".","0",".","1">>
s_10_0_0_0_24 == s_10_0_0_0 \o <<"/","2","4">>
s_10_0_0_1_32 == s_10_0_0_1 \o <<"/","3","2">>

\* custom attributes an OSPF testbed device may declare
OspfCustoms ==
    { <<>>,
      [ospf_enabled |-> TRUE],
      [ospf_neighbors |-> <<"n1">>, ospf_min_route_count |-> 2],
      [ospf_enabled |-> TRUE, ospf_expected_routes |-> <<s_10_0_0_0_24, s_10_0_0_1_32>>],
      [ospf_enabled |-> TRUE, ospf_interface_costs |-> << <<s_Gi0_1, 10>> >>],
      [ospf_enabled |-> TRUE,
       ospf_interface_costs |-> << <<s_GigabitEthernet0_1, 10>>, <<s_Gi0_2, 20>> >>] }

OspfSections ==
    { "mark_ospf_routers", "OspfProcessHealth.setup", "verify_ospf_spf_timing",
      "OspfNeighborHealth.setup", "verify_ospf_neighbors", "verify_ospf_neighbor_timers",
      "OspfInterfaceHealth.setup", "verify_ospf_interface_costs",
      "OspfRouteHealth.setup", "verify_ospf_routes", "verify_ospf_route_count" }

OspfInit ==
    /\ \E n \in 1..MaxDevices : \E customs \in [1..n -> OspfCustoms] :
         testbed = [devices |-> [i \in 1..n |-> [name |-> DeviceName(i), custom |-> customs[i]]],
                    links |-> <<>>]
    /\ parameters = <<>>
    /\ self_attr = <<>>
    /\ pc = "mark_ospf_routers"
    /\ cursor = 1
    /\ failed = <<>>
    /\ details = <<>>
    /\ observed = <<>>
    /\ visited = <<>>
    /\ result = [s \in OspfSections |-> "NotRun"]
    /\ NormIdle

\* ospf_enabled or ospf_neighbors
is_ospf_router(device) ==
    \/ Get(device.custom, "ospf_enabled", FALSE)
    \/ Get(device.custom, "ospf_neighbors", <<>>) # <<>>

\* CommonSetup.mark_ospf_routers
mark_ospf_routers ==
    /\ pc = "mark_ospf_routers"
    /\ parameters' = [ospf_routers |-> SelectSeq(testbed.devices, is_ospf_router)]
    /\ result' = [result EXCEPT !["mark_ospf_routers"] = "Passed"]
    /\ pc' = "OspfProcessHealth.setup"
    /\ UNCHANGED <<testbed, self_attr, cursor, failed, details, observed, visited>>
    /\ UNCHANGED normvars

\* OspfProcessHealth.setup
OspfProcessHealth_setup ==
    /\ pc = "OspfProcessHealth.setup"
    /\ SetupStep("OspfProcessHealth.setup", parameters.ospf_routers = <<>>,
                 "verify_ospf_spf_timing", "OspfNeighborHealth.setup")
    /\ UNCHANGED <<testbed, parameters, self_attr>>
    /\ UNCHANGED normvars

\* 'show ip ospf' payloads
ShowIpOspfOutputs ==
    { <<>>,
      [vrf |-> << <<"default", <<>> >> >>],
      OspfVrf(<< <<"1", <<>> >> >>),
      OspfVrf(<< <<"1", [spf_control |-> [spf_runs |-> 1000]]>> >>),
      OspfVrf(<< <<"1", [spf_control |-> [spf_runs |-> 1001]]>>,
                 <<"2", [spf_control |-> <<>>]>>,
                 <<"3", [spf_control |-> [spf_runs |-> 5000]]>> >>) }

ShowIpOspfAnswers == {Raised} \cup { Returned(o) : o \in ShowIpOspfOutputs }

\* the loop over the instances of verify_ospf_spf_timing
RECURSIVE spf_warnings(_, _, _)
spf_warnings(device, instances, i) ==
    IF i > Len(instances) THEN <<>>
    ELSE LET spf_runs == Get(Get(instances[i][2], "spf_control", <<>>), "spf_runs", 0)
         IN  (IF spf_runs > 1000
              THEN << [device |-> device.name, process_id |-> instances[i][1],
                       spf_runs |-> spf_runs] >>
              ELSE <<>>)
             \o spf_warnings(device, instances, i + 1)

\* the body of verify_ospf_spf_timing for one device: an exception is logged
spf_device_warnings(device, answer) ==
    IF answer.raised THEN <<>> ELSE spf_warnings(device, ospf_instances(answer.output), 1)

\* OspfProcessHealth.verify_ospf_spf_timing, one device of ospf_routers
verify_ospf_spf_timing ==
    /\ pc = "verify_ospf_spf_timing"
    /\ LET device == parameters.ospf_routers[cursor]
       IN  IF cursor \notin DOMAIN parameters.ospf_routers
           THEN WarningSectionEnd("verify_ospf_spf_timing", "OspfNeighborHealth.setup")
           ELSE \E answer \in ShowIpOspfAnswers :
                  LoopStep(spf_device_warnings(device, answer),
                           spf_device_warnings(device, answer),
                           << [device |-> device.name, answer |-> answer] >>)
    /\ UNCHANGED <<testbed, parameters, self_attr>>
    /\ UNCHANGED normvars

\* OspfNeighborHealth.setup
OspfNeighborHealth_setup ==
    /\ pc = "OspfNeighborHealth.setup"
    /\ SetupStep("OspfNeighborHealth.setup", parameters.ospf_routers = <<>>,
                 "verify_ospf_neighbors", "OspfInterfaceHealth.setup")
    /\ UNCHANGED <<testbed, parameters, self_attr>>
    /\ UNCHANGED normvars

s_FULL == <<"F","U","L","L">>

\* s.startswith(prefix)
str_startswith(s, prefix) == OccursAt(s, 1, prefix)

\* the neighbours the loops over interfaces and neighbors visit, each with
\* its state in upper case and its interface
neighbor_states(interfaces_dict) ==
    Concat([i \in DOMAIN interfaces_dict |->
      LET neighbors == ItemsUnder(interfaces_dict[i][2], "neighbors")
      IN  [k \in DOMAIN neighbors |->
             [neighbor |-> neighbors[k][1],
              state |-> str_upper(Get(neighbors[k][2], "state", <<>>)),
              interface |-> interfaces_dict[i][1]]]])

\* the neighbours verify_ospf_neighbors extracts: from the simple format if
\* the payload has 'interfaces', else from the VRF format if it has 'vrf'
extracted_neighbors(output) ==
    IF "interfaces" \in DOMAIN output THEN neighbor_states(output.interfaces)
    ELSE IF "vrf" \in DOMAIN output THEN neighbor_states(ospf_area_interfaces(output))
    ELSE <<>>

\* state.startswith('FULL')
is_full(nbr) == str_startswith(nbr.state, s_FULL)
is_non_full(nbr) == ~is_full(nbr)

full_neighbors(output) ==
    LET full == SelectSeq(extracted_neighbors(output), is_full)
    IN  [k \in DOMAIN full |-> full[k].neighbor]

non_full_neighbors(output) == SelectSeq(extracted_neighbors(output), is_non_full)

\* the body of verify_ospf_neighbors for one device with expected
\* neighbours; missing is list(missing_neighbors)
ospf_neighbor_findings(device, answer, missing) ==
    IF answer.raised
    THEN << [device |-> device.name, error |-> "raised"] >>
    ELSE IF missing # <<>>
         THEN << [device |-> device.name, missing |-> missing,
                  full_neighbors |-> full_neighbors(answer.output),
                  non_full_neighbors |-> non_full_neighbors(answer.output)] >>
         ELSE <<>>

\* 'show ip ospf neighbor' payloads with the states of the neighbours
OspfAdjacencyOutputs ==
    { <<>>,
      [interfaces |-> << <<s_Gi0_1, <<>> >>,
                         <<s_Gi0_2, [neighbors |->
                            << <<"n1", [state |-> s_FULL \o <<"/","D","R">>]>>,
                               <<"n2", [state |-> <<"2","W","A","Y">>]>> >>]>> >>],
      [interfaces |-> << <<s_Gi0_1, [neighbors |->
                            << <<"n2", [state |-> <<"f","u","l","l","/","b","d","r">>]>>,
                               <<"n1", <<>> >> >>]>> >>],
      OspfAreas(<< <<s_Gi0_1, [neighbors |-> << <<"n1", [state |-> s_FULL]>> >>]>> >>),
      OspfAreas(<< <<s_Gi0_1, [neighbors |->
                      << <<"n1", [state |-> s_FULL \o <<"/","D","R">>]>> >>]>> >>),
      [interfaces |-> << <<s_Gi0_2, [neighbors |-> << <<"n2", [state |-> s_FULL]>> >>]>> >>]
        @@ OspfAreas(<< <<s_Gi0_1, [neighbors |-> << <<"n1", [state |-> s_FULL]>> >>]>> >>) }

OspfAdjacencyAnswers == {Raised} \cup { Returned(o) : o \in OspfAdjacencyOutputs }

\* OspfNeighborHealth.verify_ospf_neighbors, one device of ospf_routers
verify_ospf_neighbors ==
    /\ pc = "verify_ospf_neighbors"
    /\ LET device == parameters.ospf_routers[cursor]
           expected_neighbors == Get(device.custom, "ospf_neighbors", <<>>)
       IN  IF cursor \notin DOMAIN parameters.ospf_routers
           THEN SectionEnd("verify_ospf_neighbors", "verify_ospf_neighbor_timers")
           ELSE IF expected_neighbors = <<>>
           THEN LoopStep(<<>>, <<>>, <<>>)
           ELSE \E answer \in OspfAdjacencyAnswers :
                \E missing \in ListOfSet(SeqToSet(expected_neighbors)
                                           \ SeqToSet(full_neighbors(answer.output))) :
                  LoopStep(ospf_neighbor_findings(device, answer, missing),
                           ospf_neighbor_findings(device, answer, missing),
                           << [device |-> device.name, answer |-> answer] >>)
    /\ UNCHANGED <<testbed, parameters, self_attr>>
    /\ UNCHANGED normvars

\* s.split(sep)
RECURSIVE str_split(_, _)
str_split(text, sep) ==
    IF \A i \in DOMAIN text : text[i] # sep THEN <<text>>
    ELSE <<split_first(text, sep)>>
         \o str_split(SubSeq(text, Len(split_first(text, sep)) + 2, Len(text)), sep)

\* int(text) raises ValueError
int_raises(text) == text = <<>> \/ \E i \in DOMAIN text : ~IsDigit(text[i])

\* the dead-time check of one neighbor
timer_warnings(device, intf, nbr, nbr_data) ==
    LET dead_time == Get(nbr_data, "dead_time", <<>>)
        parts == str_split(dead_time, ":")
        seconds == int_of(parts[1]) * 3600 + int_of(parts[2]) * 60 + int_of(parts[3])
    IN  IF dead_time = <<>> \/ Len(parts) < 3 THEN <<>>
        ELSE IF \E k \in 1..3 : int_raises(parts[k]) THEN <<>>
        ELSE IF seconds < 10
        THEN << [device |-> device.name, neighbor |-> nbr, interface |-> intf,
                 dead_time_remaining |-> dead_time] >>
        ELSE <<>>

\* check_neighbors(interfaces_dict)
check_neighbors(device, interfaces_dict) ==
    Concat([i \in DOMAIN interfaces_dict |->
      LET neighbors == ItemsUnder(interfaces_dict[i][2], "neighbors")
      IN  Concat([k \in DOMAIN neighbors |->
                    timer_warnings(device, interfaces_dict[i][1],
                                   neighbors[k][1], neighbors[k][2])])])

s_dead_35 == <<"0","0",":","0","0",":","3","5">>
s_dead_09 == <<"0","0",":","0","0",":","0","9">>
s_dead_10 == <<"0","0",":","0","0",":","1","0">>

\* 'show ip ospf neighbor' payloads
OspfNeighborOutputs ==
    { <<>>,
      [interfaces |-> << <<s_Gi0_1, <<>> >>,
                         <<s_Gi0_2, [neighbors |-> << <<"n1", [dead_time |-> s_dead_35]>>,
                                                      <<"n2", [dead_time |-> s_dead_09]>> >>]>> >>],
      [interfaces |-> << <<s_Gi0_1, [neighbors |-> << <<"n1", [dead_time |-> s_dead_10]>>,
                                                      <<"n2", <<>> >> >>]>> >>],
      [interfaces |-> << <<s_Gi0_1, [neighbors |-> << <<"n1", [dead_time |-> <<"3","5">>]>>,
                                                      <<"n2", [dead_time |-> <<"0",":","0",":","x">>]>>,
                                                      <<"n3", [dead_time |-> <<"0",":","0",":","5">>]>> >>]>> >>],
      OspfAreas(<< <<s_Gi0_1, [neighbors |-> << <<"n1", [dead_time |-> s_dead_09]>> >>]>> >>),
      OspfVrf(<< <<"1", <<>> >> >>) }

OspfNeighborAnswers == {Raised} \cup { Returned(o) : o \in OspfNeighborOutputs }

\* the body of verify_ospf_neighbor_timers for one device
neighbor_timer_warnings(device, answer) ==
    IF answer.raised THEN <<>>
    ELSE IF "interfaces" \in DOMAIN answer.output
    THEN check_neighbors(device, answer.output.interfaces)
    ELSE check_neighbors(device, ospf_area_interfaces(answer.output))

\* OspfNeighborHealth.verify_ospf_neighbor_timers, one device of ospf_routers
verify_ospf_neighbor_timers ==
    /\ pc = "verify_ospf_neighbor_timers"
    /\ LET device == parameters.ospf_routers[cursor]
       IN  IF cursor \notin DOMAIN parameters.ospf_routers
           THEN WarningSectionEnd("verify_ospf_neighbor_timers", "OspfInterfaceHealth.setup")
           ELSE \E answer \in OspfNeighborAnswers :
                  LoopStep(neighbor_timer_warnings(device, answer),
                           neighbor_timer_warnings(device, answer),
                           << [device |-> device.name, answer |-> answer] >>)
    /\ UNCHANGED <<testbed, parameters, self_attr>>
    /\ UNCHANGED normvars

\* OspfInterfaceHealth.setup
OspfInterfaceHealth_setup ==
    /\ pc = "OspfInterfaceHealth.setup"
    /\ SetupStep("OspfInterfaceHealth.setup", parameters.ospf_routers = <<>>,
                 "verify_ospf_interface_costs", "OspfRouteHealth.setup")
    /\ UNCHANGED <<testbed, parameters, self_attr>>
    /\ UNCHANGED normvars

\* 'show ip ospf interface' payloads
OspfInterfaceOutputs ==
    { <<>>,
      OspfVrf(<< <<"1", <<>> >> >>),
      OspfAreas(<< <<s_Gi0_1, [cost |-> 10]>>, <<s_Gi0_2, [cost |-> 20]>> >>),
      OspfAreas(<< <<s_Gi0_1, [cost |-> 20]>>, <<s_Gi0_2, <<>> >> >>),
      OspfAreas(<< <<s_GigabitEthernet0_1, [cost |-> 20]>> >>),
      OspfAreas(<< <<s_GigabitEthernet0_1, [cost |-> 10]>>, <<s_Gi0_11, [cost |-> 1]>> >>) }

OspfInterfaceAnswers == {Raised} \cup { Returned(o) : o \in OspfInterfaceOutputs }

\* the loop over the interfaces of verify_ospf_interface_costs
RECURSIVE cost_warnings(_, _, _, _)
cost_warnings(device, expected_costs, interfaces, i) ==
    IF i > Len(interfaces) THEN <<>>
    ELSE LET intf == interfaces[i][1]
             actual_cost == Get(interfaces[i][2], "cost", 0)
             expected_cost == Lookup(expected_costs, intf)
         IN  (IF intf \in SeqToSet(Keys(expected_costs)) /\ actual_cost # expected_cost
              THEN << [device |-> device.name, interface |-> intf,
                       actual_cost |-> actual_cost, expected_cost |-> expected_cost] >>
              ELSE <<>>)
             \o cost_warnings(device, expected_costs, interfaces, i + 1)

\* the body of verify_ospf_interface_costs for one device with expected costs
cost_device_warnings(device, answer) ==
    IF answer.raised THEN <<>>
    ELSE cost_warnings(device, device.custom.ospf_interface_costs,
                       ospf_area_interfaces(answer.output), 1)

\* OspfInterfaceHealth.verify_ospf_interface_costs, one device of ospf_routers
verify_ospf_interface_costs ==
    /\ pc = "verify_ospf_interface_costs"
    /\ LET device == parameters.ospf_routers[cursor]
       IN  IF cursor \notin DOMAIN parameters.ospf_routers
           THEN WarningSectionEnd("verify_ospf_interface_costs", "OspfRouteHealth.setup")
           ELSE IF Get(device.custom, "ospf_interface_costs", <<>>) = <<>>
           THEN LoopStep(<<>>, <<>>, <<>>)
           ELSE \E answer \in OspfInterfaceAnswers :
                  LoopStep(cost_device_warnings(device, answer),
                           cost_device_warnings(device, answer),
                           << [device |-> device.name, answer |-> answer] >>)
    /\ UNCHANGED <<testbed, parameters, self_attr>>
    /\ UNCHANGED normvars

\* OspfRouteHealth.setup
OspfRouteHealth_setup ==
    /\ pc = "OspfRouteHealth.setup"
    /\ SetupStep("OspfRouteHealth.setup", parameters.ospf_routers = <<>>,
                 "verify_ospf_routes", "done")
    /\ UNCHANGED <<testbed, parameters, self_attr>>
    /\ UNCHANGED normvars

\* a 'show ip route ospf' payload with these routes
OspfRoutes(routes) ==
    [vrf |-> << <<"default",
        [address_family |-> << <<"ipv4", [routes |-> [i \in DOMAIN routes |-> <<routes[i], <<>> >>]]>> >>]>> >>]

\* 'show ip route ospf' payloads
OspfRouteOutputs ==
    { <<>>,
      [vrf |-> << <<"default", [address_family |-> << <<"ipv4", <<>> >> >>]>> >>],
      OspfRoutes(<<s_10_0_0_0_24>>),
      OspfRoutes(<<s_10_0_0_0 \o <<"/","8">>, s_10_0_0_1 \o <<"0","/","3","2">> >>),
      OspfRoutes(<<s_10_0_0_1_32, <<"1","7","2",".","1","6",".","0",".","0","/","1","6">> >>) }

OspfRouteAnswers == {Raised} \cup { Returned(o) : o \in OspfRouteOutputs }

\* ospf_routes: the route keys of every address family, in payload order
ospf_routes(output) ==
    LET families == Concat([v \in DOMAIN ItemsUnder(output, "vrf") |->
                              ItemsUnder(output.vrf[v][2], "address_family")])
        routes == Concat([a \in DOMAIN families |-> ItemsUnder(families[a][2], "routes")])
    IN  [k \in DOMAIN routes |-> routes[k][1]]

\* expected_route == ospf_route or
\* ospf_route.startswith(expected_route.split('/')[0])
route_found(expected_route, routes) ==
    \E k \in DOMAIN routes :
       \/ expected_route = routes[k]
       \/ str_startswith(routes[k], split_first(expected_route, "/"))

\* the loop over expected_routes
RECURSIVE missing_routes(_, _, _)
missing_routes(expected_routes, routes, i) ==
    IF i > Len(expected_routes) THEN <<>>
    ELSE (IF route_found(expected_routes[i], routes) THEN <<>> ELSE <<expected_routes[i]>>)
         \o missing_routes(expected_routes, routes, i + 1)

\* the body of verify_ospf_routes for one device with expected routes
ospf_route_findings(device, answer) ==
    LET missing == missing_routes(device.custom.ospf_expected_routes,
                                  ospf_routes(answer.output), 1)
    IN  IF answer.raised
        THEN << [device |-> device.name, error |-> "raised"] >>
        ELSE IF missing # <<>>
        THEN << [device |-> device.name, missing_routes |-> missing,
                 found_routes |-> ospf_routes(answer.output)] >>
        ELSE <<>>

\* OspfRouteHealth.verify_ospf_routes, one device of ospf_routers
verify_ospf_routes ==
    /\ pc = "verify_ospf_routes"
    /\ LET device == parameters.ospf_routers[cursor]
       IN  IF cursor \notin DOMAIN parameters.ospf_routers
           THEN SectionEnd("verify_ospf_routes", "verify_ospf_route_count")
           ELSE IF Get(device.custom, "ospf_expected_routes", <<>>) = <<>>
           THEN LoopStep(<<>>, <<>>, <<>>)
           ELSE \E answer \in OspfRouteAnswers :
                  LoopStep(ospf_route_findings(device, answer),
                           ospf_route_findings(device, answer),
                           << [device |-> device.name, answer |-> answer] >>)
    /\ UNCHANGED <<testbed, parameters, self_attr>>
    /\ UNCHANGED normvars

\* route_count: the routes of every address family together
route_count(output) ==
    LET families == Concat([v \in DOMAIN ItemsUnder(output, "vrf") |->
                              ItemsUnder(output.vrf[v][2], "address_family")])
    IN  Len(Concat([a \in DOMAIN families |-> ItemsUnder(families[a][2], "routes")]))

\* the body of verify_ospf_route_count for one device with a minimum
route_count_warnings(device, answer) ==
    IF answer.raised THEN <<>>
    ELSE IF route_count(answer.output) < device.custom.ospf_min_route_count
    THEN << [device |-> device.name, actual_routes |-> route_count(answer.output),
             minimum_expected |-> device.custom.ospf_min_route_count] >>
    ELSE <<>>

\* OspfRouteHealth.verify_ospf_route_count, one device of ospf_routers
verify_ospf_route_count ==
    /\ pc = "verify_ospf_route_count"
    /\ LET device == parameters.ospf_routers[cursor]
       IN  IF cursor \notin DOMAIN parameters.ospf_routers
           THEN WarningSectionEnd("verify_ospf_route_count", "done")
           ELSE IF Get(device.custom, "ospf_min_route_count", 0) <= 0
           THEN LoopStep(<<>>, <<>>, <<>>)
           ELSE \E answer \in OspfRouteAnswers :
                  LoopStep(route_count_warnings(device, answer),
                           route_count_warnings(device, answer),
                           << [device |-> device.name, answer |-> answer] >>)
    /\ UNCHANGED <<testbed, parameters, self_attr>>
    /\ UNCHANGED normvars

OspfNext ==
    \/ mark_ospf_routers
    \/ OspfProcessHealth_setup
    \/ verify_ospf_spf_timing
    \/ OspfNeighborHealth_setup
    \/ verify_ospf_neighbors
    \/ verify_ospf_neighbor_timers
    \/ OspfInterfaceHealth_setup
    \/ verify_ospf_interface_costs
    \/ OspfRouteHealth_setup
    \/ verify_ospf_routes
    \/ verify_ospf_route_count

SpecOspf == OspfInit /\ [][OspfNext]_vars

\* the checkers that collect warnings
WarningCheckers ==
    { "verify_ospf_interface_costs", "verify_ospf_neighbor_timers",
      "verify_ospf_spf_timing", "verify_ospf_route_count", "verify_stp_port_states" }

\* no checker that collects warnings has ended Failed
NoWarningCheckerFailed ==
    \A section \in WarningCheckers \cap DOMAIN result : result[section] # "Failed"

\* a checker that collects warnings and has gone through its devices ends
\* Passed, with or without warnings
WarningsEndPassed ==
    \A section \in WarningCheckers :
      pc = section /\ pc' # section /\ cursor # 0 => result'[section] = "Passed"

(***************************************************************************)
(* C12: warning-class discrepancies never promote a checker to Failed:     *)
(* whatever the devices answer, verify_ospf_interface_costs,               *)
(* verify_ospf_neighbor_timers, verify_ospf_spf_timing and                 *)
(* verify_ospf_route_count collect their discrepancies as warnings and end *)
(* Passed, never Failed; verify_stp_port_states is the same checker shape  *)
(* in the layer-2 suite and is held to the same formula there.             *)
(***************************************************************************)
C12_WarningsNeverFail ==
    []NoWarningCheckerFailed /\ [][WarningsEndPassed]_vars

\* the warning checkers before verify_ospf_interface_costs have ended Passed
\* and verify_ospf_interface_costs has gone through its devices and holds a
\* warning about a cost
C12_WarningsCollected ==
    /\ pc = "verify_ospf_interface_costs"
    /\ cursor \notin DOMAIN parameters.ospf_routers
    /\ \E i \in DOMAIN failed : failed[i].actual_cost # failed[i].expected_cost
    /\ result["verify_ospf_spf_timing"] = "Passed"
    /\ result["verify_ospf_neighbor_timers"] = "Passed"

(***************************************************************************)
(* tests/layer2/test_rep.py                                                *)
(***************************************************************************)
\* custom attributes a REP testbed device may declare
RepCustoms ==
    { <<>>,
      [rep_enabled |-> TRUE],
      [rep_segment_id |-> 1],
      [rep_enabled |-> TRUE, rep_segment_id |-> 2],
      [rep_enabled |-> FALSE, rep_segment_id |-> 1] }

RepSections == { "mark_rep_devices", "RepSegmentHealth.setup", "verify_rep_segment" }

RepInit ==
    /\ \E n \in 1..MaxDevices : \E customs \in [1..n -> RepCustoms] :
         testbed = [devices |-> [i \in 1..n |-> [name |-> DeviceName(i), custom |-> customs[i]]],
                    links |-> <<>>]
    /\ parameters = <<>>
    /\ self_attr = <<>>
    /\ pc = "mark_rep_devices"
    /\ cursor = 1
    /\ failed = <<>>
    /\ details = <<>>
    /\ observed = <<>>
    /\ visited = <<>>
    /\ result = [s \in RepSections |-> "NotRun"]
    /\ NormIdle

\* rep_enabled or rep_segment_id is not None
is_rep_device(device) ==
    \/ Get(device.custom, "rep_enabled", FALSE)
    \/ "rep_segment_id" \in DOMAIN device.custom

\* CommonSetup.mark_rep_devices
mark_rep_devices ==
    /\ pc = "mark_rep_devices"
    /\ parameters' = [rep_devices |-> SelectSeq(testbed.devices, is_rep_device)]
    /\ result' = [result EXCEPT !["mark_rep_devices"] = "Passed"]
    /\ pc' = "RepSegmentHealth.setup"
    /\ UNCHANGED <<testbed, self_attr, cursor, failed, details, observed, visited>>
    /\ UNCHANGED normvars

\* RepSegmentHealth.setup
RepSegmentHealth_setup ==
    /\ pc = "RepSegmentHealth.setup"
    /\ SetupStep("RepSegmentHealth.setup", parameters.rep_devices = <<>>,
                 "verify_rep_segment", "done")
    /\ UNCHANGED <<testbed, parameters, self_attr>>
    /\ UNCHANGED normvars

\* device.parse('show rep topology'): no parser, an empty result, a result
RepParseAnswers ==
    { Raised, Returned(<<>>), Returned([segments |-> << << <<"1">>, <<>> >> >>]) }

s_REP == <<"R","E","P">>
s_Segment == <<"S","e","g","m","e","n","t">>

\* device.execute('show rep topology'): the command fails, or prints text
RepExecuteAnswers ==
    { Raised,
      Returned(<<>>),
      Returned(<<"n","o"," ","r","e","p">>),
      Returned(s_REP \o <<" ">> \o s_Segment \o <<" ","1">>),
      Returned(s_REP \o <<" ">> \o s_Segment \o <<" ","1","0">>),
      Returned(s_REP \o <<" "," ">> \o s_Segment \o <<"\t","2",",">>),
      Returned(s_Segment \o <<" ","2">>) }

\* \s of a regular expression
IsSpace(c) == c \in {" ", "\t", "\n", "\r"}

\* \w of a regular expression
IsWordChar(c) == IsDigit(c) \/ c \in DOMAIN LowerCase \/ c \in DOMAIN UpperCase \/ c = "_"

\* the number of white-space characters of text from position i on
RECURSIVE space_run(_, _)
space_run(text, i) ==
    IF i \in DOMAIN text /\ IsSpace(text[i]) THEN 1 + space_run(text, i + 1) ELSE 0

\* the pattern REP\s+Segment\s+<id>\b matches text at position i
segment_pattern_at(text, i, expected_segment_id) ==
    LET after_rep == i + Len(s_REP)
        segment == after_rep + space_run(text, after_rep)
        after_segment == segment + Len(s_Segment)
        number == after_segment + space_run(text, after_segment)
        after_number == number + Len(str_int(expected_segment_id))
    IN  /\ OccursAt(text, i, s_REP)
        /\ space_run(text, after_rep) >= 1
        /\ OccursAt(text, segment, s_Segment)
        /\ space_run(text, after_segment) >= 1
        /\ OccursAt(text, number, str_int(expected_segment_id))
        /\ after_number \in DOMAIN text => ~IsWordChar(text[after_number])

\* re.search(segment_pattern, output)
segment_pattern_found(text, expected_segment_id) ==
    \E i \in DOMAIN text : segment_pattern_at(text, i, expected_segment_id)

\* the queries verify_rep_segment issues for one device: the structured parse,
\* and the text command when the parse raised
rep_segment_queries(device, parsed, executed) ==
    IF parsed.raised
    THEN << [device |-> device.name, query |-> "parse", answer |-> parsed],
            [device |-> device.name, query |-> "execute", answer |-> executed] >>
    ELSE << [device |-> device.name, query |-> "parse", answer |-> parsed] >>

\* the body of verify_rep_segment for one device
rep_segment_findings(device, parsed, executed) ==
    LET has_parser == ~parsed.raised
        output == IF has_parser THEN parsed.output ELSE executed.output
    IN  IF ~has_parser /\ executed.raised
        THEN << [device |-> device.name, error |-> "raised"] >>
        ELSE IF output = <<>>
        THEN << [device |-> device.name, issue |-> "No REP topology output"] >>
        ELSE IF has_parser THEN <<>>
        ELSE IF ~str_contains(output, s_REP \o <<" ">> \o s_Segment)
                /\ ~str_contains(output, s_Segment)
        THEN << [device |-> device.name, issue |-> "No REP segment found in output"] >>
        ELSE IF "rep_segment_id" \in DOMAIN device.custom
                /\ ~segment_pattern_found(output, device.custom.rep_segment_id)
        THEN << [device |-> device.name, issue |-> "Expected REP segment not found",
                 expected_segment_id |-> device.custom.rep_segment_id] >>
        ELSE <<>>

\* RepSegmentHealth.verify_rep_segment, one device of rep_devices
verify_rep_segment ==
    /\ pc = "verify_rep_segment"
    /\ LET device == parameters.rep_devices[cursor]
       IN  IF cursor \notin DOMAIN parameters.rep_devices
           THEN SectionEnd("verify_rep_segment", "done")
           ELSE \E parsed \in RepParseAnswers :
                \E executed \in IF parsed.raised THEN RepExecuteAnswers ELSE {Raised} :
                  LoopStep(rep_segment_findings(device, parsed, executed),
                           rep_segment_findings(device, parsed, executed),
                           rep_segment_queries(device, parsed, executed))
    /\ UNCHANGED <<testbed, parameters, self_attr>>
    /\ UNCHANGED normvars

RepNext ==
    \/ mark_rep_devices
    \/ RepSegmentHealth_setup
    \/ verify_rep_segment

SpecRep == RepInit /\ [][RepNext]_vars

(***************************************************************************)
(* C14: in verify_rep_segment the structured parse result is used whenever *)
(* it is non-empty, and the text fallback (execute) is attempted exactly    *)
(* when the structured parse raises or returns an empty payload: an empty  *)
(* structured result leads to a fallback attempt, not directly to a        *)
(* finding.                                                                *)
(***************************************************************************)
C14_FallbackIffParseRaisesOrEmpty ==
    Stepped("verify_rep_segment") =>
      LET parsed == observed[1].answer
          fallback == \E q \in DOMAIN observed : observed[q].query = "execute"
      IN  /\ observed[1].query = "parse"
          /\ fallback = (parsed.raised \/ parsed.output = <<>>)
          /\ ~parsed.raised /\ parsed.output # <<>> => details = <<>>

(***************************************************************************)
(* Two runs of tests/layer3/test_mpls_core.py over the same testbed: every *)
(* device gives the second run the answer it gave the first.               *)
(***************************************************************************)
RerunSections ==
    { "mark_mpls_routers", "LdpNeighbors.setup", "first run", "second run" }

\* the verdict of verify_ldp_neighbors and the reason given with it, which
\* prints failed_devices
RunReport(status, failed_devices) == [status |-> status, reason |-> failed_devices]

RerunInit ==
    /\ \E n \in 1..MaxDevices :
       \E customs \in [1..n -> { c \in MplsCustoms : "critical_prefixes" \notin DOMAIN c }] :
       \E answers \in [1..n -> LdpAnswers] :
         testbed = [devices |-> [i \in 1..n |->
                                   [name |-> DeviceName(i), custom |-> customs[i],
                                    show_mpls_ldp_neighbor |-> answers[i]]],
                    links |-> <<>>]
    /\ parameters = <<>>
    /\ self_attr = <<>>
    /\ pc = "mark_mpls_routers"
    /\ cursor = 1
    /\ failed = <<>>
    /\ details = <<>>
    /\ observed = <<>>
    /\ visited = <<>>
    /\ result = [s \in RerunSections |-> RunReport("NotRun", <<>>)]
    /\ NormIdle

\* CommonSetup.mark_mpls_routers of either run
rerun_mark_mpls_routers ==
    /\ pc = "mark_mpls_routers"
    /\ parameters' = [mpls_routers |-> SelectSeq(testbed.devices, is_mpls_router)]
    /\ result' = [result EXCEPT !["mark_mpls_routers"] = RunReport("Passed", <<>>)]
    /\ pc' = "LdpNeighbors.setup"
    /\ UNCHANGED <<testbed, self_attr, cursor, failed, details, observed, visited>>
    /\ UNCHANGED normvars

\* LdpNeighbors.setup of either run
rerun_LdpNeighbors_setup ==
    /\ pc = "LdpNeighbors.setup"
    /\ result' = [result EXCEPT !["LdpNeighbors.setup"] =
                     RunReport(IF parameters.mpls_routers = <<>> THEN "Skipped" ELSE "Passed",
                               <<>>)]
    /\ pc' = IF parameters.mpls_routers = <<>> THEN "done" ELSE "verify_ldp_neighbors"
    /\ cursor' = 1
    /\ UNCHANGED <<failed, details, observed, visited>>
    /\ UNCHANGED <<testbed, parameters, self_attr>>
    /\ UNCHANGED normvars

\* the run that is under way
this_run == IF result["first run"].status = "NotRun" THEN "first run" ELSE "second run"

\* LdpNeighbors.verify_ldp_neighbors of either run, one device of
\* mpls_routers; after the first run the script is started again
rerun_verify_ldp_neighbors ==
    /\ pc = "verify_ldp_neighbors"
    /\ LET mpls_routers == parameters.mpls_routers
           device == mpls_routers[cursor]
           expected_neighbors == Get(device.custom, "ldp_neighbors", <<>>)
           answer == device.show_mpls_ldp_neighbor
       IN  IF cursor \notin DOMAIN mpls_routers
           THEN /\ result' = [result EXCEPT ![this_run] = RunReport(Verdict(failed), failed)]
                /\ pc' = IF this_run = "first run" THEN "mark_mpls_routers" ELSE "done"
                /\ cursor' = 1
                /\ failed' = <<>>
                /\ details' = <<>>
                /\ observed' = <<>>
                /\ visited' = <<>>
           ELSE IF expected_neighbors = <<>>
           THEN LoopStep(<<>>, <<>>, <<>>)
           ELSE \E missing \in ListOfSet(missing_neighbors(expected_neighbors,
                                         operational_neighbors(answer.output))) :
                  LoopStep(ldp_findings(device, answer, missing),
                           ldp_findings(device, answer, missing),
                           << [device |-> device.name, answer |-> answer] >>)
    /\ UNCHANGED <<testbed, parameters, self_attr>>
    /\ UNCHANGED normvars

RerunNext ==
    \/ rerun_mark_mpls_routers
    \/ rerun_LdpNeighbors_setup
    \/ rerun_verify_ldp_neighbors

SpecRerun == RerunInit /\ [][RerunNext]_vars

(***************************************************************************)
(* C15: running the same checker twice on identical inputs and identical   *)
(* device responses gives identical verdicts and identical finding         *)
(* summaries, including the order of the elements inside a finding.        *)
(***************************************************************************)
C15_RerunGivesSameReport ==
    result["second run"].status # "NotRun" => result["second run"] = result["first run"]

(***************************************************************************)
(* C16: an expected interface name matches an observed name only when      *)
(* their canonical forms are equal.  In verify_port_channel_status an      *)
(* expected port channel is treated as found iff the payload has an        *)
(* interface whose canonical name equals that of Port-channel<id>; an      *)
(* observed Port-channel10 does not stand for an expected Port-channel1.   *)
(***************************************************************************)
C16_FoundOnlyOnCanonicalEquality ==
    Stepped("verify_port_channel_status") /\ ~observed[1].answer.raised =>
      LET device == self_attr.pc_devices[LastVisited]
          interfaces == Get(observed[1].answer.output, "interfaces", <<>>)
      IN  \A k \in DOMAIN device.custom.port_channels :
            LET pc_id == device.custom.port_channels[k]
                canonical == normalize_interface_name(port_channel_name(pc_id))
                reported_not_found ==
                    \E d \in DOMAIN details :
                       details[d].pc_id = pc_id /\ details[d].issue = "not found"
            IN  reported_not_found
                  = ~\E i \in DOMAIN interfaces :
                        normalize_interface_name(interfaces[i][1]) = canonical

(***************************************************************************)
(* C17: every comparison of an expected interface name with an observed    *)
(* one is made on canonical forms.  In verify_ospf_interface_costs an      *)
(* observed interface whose canonical name equals that of an expected      *)
(* interface and whose cost differs from the expected cost is reported,    *)
(* whichever of the long and the short form either side is written in.     *)
(***************************************************************************)
C17_CostComparedOnCanonicalNames ==
    Stepped("verify_ospf_interface_costs") /\ observed # <<>> /\ ~observed[1].answer.raised =>
      LET device == parameters.ospf_routers[LastVisited]
          expected_costs == device.custom.ospf_interface_costs
          interfaces == ospf_area_interfaces(observed[1].answer.output)
      IN  \A e \in DOMAIN expected_costs : \A i \in DOMAIN interfaces :
            /\ normalize_interface_name(expected_costs[e][1])
                 = normalize_interface_name(interfaces[i][1])
            /\ Get(interfaces[i][2], "cost", 0) # expected_costs[e][2]
            => \E d \in DOMAIN details : details[d].interface = interfaces[i][1]

(***************************************************************************)
(* C18: in check_link_cdp the neighbour-name test of a direction succeeds  *)
(* iff the reported device_id with its domain suffix removed equals the    *)
(* remote endpoint's device name, letter case aside; a reported neighbour  *)
(* whose stripped name only contains the expected name is a mismatch.      *)
(***************************************************************************)
C18_NeighborNameEqualDomainStripped ==
    Stepped("check_link_cdp") /\ Len(LastLink.interfaces) = 2 =>
      \A k \in 1..2 :
        LET local_intf == LastLink.interfaces[k]
            remote_intf == LastLink.interfaces[3 - k]
            answer == observed[k].answer
            index == Get(answer.output, "index", <<>>)
            matches == cdp_matches(index, local_intf.name)
            neighbor == index[CHOOSE i \in matches : \A j \in matches : i <= j][2]
            name_finding ==
                \E d \in DOMAIN details :
                   details[d].device = local_intf.device /\ details[d].issue = "CDP neighbor"
        IN  ~answer.raised /\ matches # {} =>
              name_finding
                = (str_lower(split_first(neighbor.device_id, ".")) # str_lower(remote_intf.device))

(***************************************************************************)
(* C19: a link whose endpoint count is not 2 is excluded from              *)
(* check_link_cdp: no device of it is queried and it contributes no        *)
(* finding, and it is not reported as passing, so check_link_cdp does not  *)
(* end Passed when every link of the topology was excluded.                *)
(***************************************************************************)
C19_ExcludedLinkNotReportedPassing ==
    /\ Stepped("check_link_cdp") /\ Len(LastLink.interfaces) # 2 =>
         /\ observed = <<>>
         /\ details = <<>>
         /\ \A i \in DOMAIN failed : failed[i].link # LastLink.name
    /\ result["check_link_cdp"] = "Passed" =>
         \E i \in DOMAIN self_attr.links : Len(self_attr.links[i].interfaces) = 2

(***************************************************************************)
(* C20: verify_stp_mode passes a device iff its observed STP mode equals   *)
(* the expected stp_mode, letter case aside, and records exactly one       *)
(* finding for the device otherwise; an expected mode that is only a       *)
(* substring of the observed mode (pvst against rapid-pvst) is a mismatch. *)
(***************************************************************************)
C20_StpModeEqualIgnoringCase ==
    Stepped("verify_stp_mode") =>
      LET device == self_attr.stp_devices[LastVisited]
          expected_mode == Get(device.custom, "stp_mode", s_rapid_pvst)
          answer == observed[1].answer
          parsed == answer.output
          mode == Get(parsed, "mode", Get(parsed, "spanning_tree_mode", <<>>))
      IN  Len(details) = IF ~answer.raised /\ str_lower(mode) = str_lower(expected_mode)
                         THEN 0 ELSE 1

\* the neighbours in a state that starts with FULL under either format of a
\* 'show ip ospf neighbor' payload
FullUnderAnyShape(output) ==
    LET merged == neighbor_states(ItemsUnder(output, "interfaces"))
                    \o neighbor_states(ospf_area_interfaces(output))
    IN  { merged[k].neighbor : k \in { j \in DOMAIN merged : is_full(merged[j]) } }

\* the neighbours the last iteration of a neighbour checker reported missing
ReportedMissing ==
    UNION { SeqToSet(details[d].missing) : d \in DOMAIN details }

(***************************************************************************)
(* C21: entity extraction walks every known payload shape and merges the   *)
(* results.  When a 'show ip ospf neighbor' payload carries neighbours     *)
(* under the flat 'interfaces' shape and under the nested 'vrf' shape,     *)
(* verify_ospf_neighbors counts the FULL neighbours of both, and reports   *)
(* as missing exactly the expected neighbours that are FULL under neither. *)
(***************************************************************************)
C21_NeighborsMergedFromBothShapes ==
    Stepped("verify_ospf_neighbors") /\ observed # <<>> /\ ~observed[1].answer.raised =>
      LET device == parameters.ospf_routers[LastVisited]
      IN  ReportedMissing
            = SeqToSet(device.custom.ospf_neighbors)
                \ FullUnderAnyShape(observed[1].answer.output)

(***************************************************************************)
(* C22: verify_ospf_routes reports an expected route as missing iff that   *)
(* prefix, address and mask length, is not among the observed OSPF routes: *)
(* an observed route that only begins with the address part of the         *)
(* expected route (10.0.0.0/8 for 10.0.0.0/24, 10.0.0.10/32 for            *)
(* 10.0.0.1/32) does not satisfy the expectation.                          *)
(***************************************************************************)
C22_RouteMissingIffPrefixAbsent ==
    Stepped("verify_ospf_routes") /\ observed # <<>> /\ ~observed[1].answer.raised =>
      LET device == parameters.ospf_routers[LastVisited]
          expected_routes == device.custom.ospf_expected_routes
          observed_routes == SeqToSet(ospf_routes(observed[1].answer.output))
      IN  UNION { SeqToSet(details[d].missing_routes) : d \in DOMAIN details }
            = SeqToSet(expected_routes) \ observed_routes

(***************************************************************************)
(* layer1_tests.py: LinkHealth.check_link_mtu                              *)
(***************************************************************************)
\* Python values of the testbed file and of the payloads: an int, a str, None
PyInt(n) == [type |-> "int", value |-> n]
None == [type |-> "NoneType", value |-> 0]

\* a == b for such values
py_eq(a, b) == a.type = b.type /\ a.value = b.value

\* not value
py_not(value) ==
    \/ value.type = "NoneType"
    \/ value.type = "int" /\ value.value = 0
    \/ value.type = "str" /\ value.value = <<>>

s_1500 == <<"1","5","0","0">>

\* links whose interfaces declare an mtu in the testbed file
MtuLinkChoices ==
    { [name |-> "sw1-sw2",
       interfaces |-> << Interface(s_sw1, s_Gi0_1, [mtu |-> PyInt(1500)]),
                         Interface(s_sw2, s_Gi0_2, [mtu |-> Str(s_1500)]) >>],
      [name |-> "sw1-sw3",
       interfaces |-> << Interface(s_sw1, s_Gi0_3, [mtu |-> PyInt(9000)]),
                         Interface(s_sw3, s_Gi0_1, <<>>) >>],
      [name |-> "sw2-sw3",
       interfaces |-> << Interface(s_sw2, s_Gi0_3, [mtu |-> PyInt(0)]),
                         Interface(s_sw3, s_Gi0_2, [mtu |-> PyInt(1500)]) >>] }

MtuSections == { "LinkHealth.setup", "check_link_mtu" }

MtuInit ==
    /\ \E n \in 0..MaxLinks : \E links \in [1..n -> MtuLinkChoices] :
         /\ \A i, j \in 1..n : links[i] = links[j] => i = j
         /\ testbed = [devices |-> <<>>, links |-> links]
    /\ parameters = <<>>
    /\ self_attr = <<>>
    /\ pc = "LinkHealth.setup"
    /\ cursor = 1
    /\ failed = <<>>
    /\ details = <<>>
    /\ observed = <<>>
    /\ visited = <<>>
    /\ result = [s \in MtuSections |-> "NotRun"]
    /\ NormIdle

\* LinkHealth.setup, in a run of check_link_mtu
LinkHealth_setup_mtu ==
    /\ pc = "LinkHealth.setup"
    /\ self_attr' = [links |-> testbed.links]
    /\ SetupStep("LinkHealth.setup", testbed.links = <<>>, "check_link_mtu", "done")
    /\ UNCHANGED <<testbed, parameters>>
    /\ UNCHANGED normvars

\* getattr(intf_obj, 'mtu', None)
expected_mtu_of(intf) == Get(intf.attrs, "mtu", None)

\* 'show interfaces <name>' payloads as far as check_link_mtu reads them; an
\* interface without expected MTU is not queried
MtuAnswers(intf) ==
    IF py_not(expected_mtu_of(intf)) THEN { Raised }
    ELSE { Raised, Returned(<<>>) } \cup
         { Returned(<< <<intf.name, [mtu |-> PyInt(mtu)]>> >>) : mtu \in {1500, 9000} }

\* the body of check_link_mtu for the interfaces k.. of a link: the findings,
\* the queries, and whether a query raised, which ends the loop
RECURSIVE mtu_details(_, _, _)
mtu_details(link, answers, k) ==
    IF k > Len(link.interfaces)
    THEN [raised |-> FALSE, details |-> <<>>, queries |-> <<>>]
    ELSE LET intf == link.interfaces[k]
             expected_mtu == expected_mtu_of(intf)
             query == [device |-> intf.device, intf |-> intf.name, answer |-> answers[k]]
             actual_mtu == Get(get_interface_data(answers[k], intf.name), "mtu", None)
             rest == mtu_details(link, answers, k + 1)
         IN  IF py_not(expected_mtu) THEN rest
             ELSE IF answers[k].raised
             THEN [raised |-> TRUE, details |-> <<>>, queries |-> <<query>>]
             ELSE [raised |-> rest.raised,
                   details |-> (IF ~py_eq(actual_mtu, expected_mtu)
                                THEN << [device |-> intf.device, intf |-> intf.name,
                                         actual_mtu |-> actual_mtu,
                                         expected_mtu |-> expected_mtu] >>
                                ELSE <<>>) \o rest.details,
                   queries |-> <<query>> \o rest.queries]

\* LinkHealth.check_link_mtu, one link of self.links: a query that raises is
\* not caught and ends the section
check_link_mtu ==
    /\ pc = "check_link_mtu"
    /\ LET link == self_attr.links[cursor]
           n == Len(link.interfaces)
       IN  IF cursor \notin DOMAIN self_attr.links
           THEN SectionEnd("check_link_mtu", "done")
           ELSE \E answers \in [1..n -> UNION { MtuAnswers(link.interfaces[k]) : k \in 1..n }] :
                  /\ \A k \in 1..n : answers[k] \in MtuAnswers(link.interfaces[k])
                  /\ \A j, k \in 1..n :
                       j < k /\ answers[j].raised /\ ~py_not(expected_mtu_of(link.interfaces[j]))
                         => answers[k] = Raised
                  /\ LET run == mtu_details(link, answers, 1)
                     IN  IF run.raised
                         THEN LoopAbort(run.details, run.queries)
                         ELSE LoopStep(link_entry(link, run.details), run.details,
                                       run.queries)
    /\ UNCHANGED <<testbed, parameters, self_attr>>
    /\ UNCHANGED normvars

MtuNext ==
    \/ LinkHealth_setup_mtu
    \/ check_link_mtu

SpecMtu == MtuInit /\ [][MtuNext]_vars

\* the number a value stands for
numeric(value) == IF value.type = "str" THEN int_of(value.value) ELSE value.value

(***************************************************************************)
(* C23: the MTU check coerces the expected and the actual value to a       *)
(* number before comparing: an endpoint whose query returned an MTU has a  *)
(* finding iff the two numbers differ, so an expected "1500" given as a    *)
(* string and an observed integer 1500 produce no finding.                 *)
(***************************************************************************)
C23_MtuComparedAsNumbers ==
    Stepped("check_link_mtu") =>
      \A q \in DOMAIN observed : \A k \in DOMAIN LastLink.interfaces :
        LET intf == LastLink.interfaces[k]
            answer == observed[q].answer
            actual_mtu == Get(get_interface_data(answer, intf.name), "mtu", None)
        IN  /\ observed[q].device = intf.device
            /\ observed[q].intf = intf.name
            /\ ~answer.raised
            /\ actual_mtu.type # "NoneType"
            => (FindingsAbout(observed[q]) # {})
                 = (numeric(actual_mtu) # numeric(expected_mtu_of(intf)))

(***************************************************************************)
(* CommonSetup.connect_to_devices of tests/layer2/test_stp.py and of       *)
(* tests/layer2/test_layer2.py, and the STP suite.  A device of these      *)
(* testbeds is reachable or not; device.connect() raises for a device that *)
(* is not, and device.connected is true after a connect that returned.     *)
(***************************************************************************)
StpSections ==
    { "connect_to_devices", "StpValidation.setup", "check_stp_enabled",
      "check_root_bridge_status", "check_interface_states" }

\* the devices of a testbed with the state of their connection
Connectable(devices, types, reachable) ==
    [i \in DOMAIN devices |->
       [name |-> devices[i].name, custom |-> devices[i].custom, type |-> types[i],
        reachable |-> reachable[i], connected |-> FALSE]]

\* a run of the STP script or of the layer-2 script
ConnectInit ==
    /\ \E n \in 1..MaxDevices : \E f \in DOMAIN L2Families :
       \E customs \in [1..n -> L2Families[f]] :
       \E types \in [1..n -> {"switch", "firewall"}] :
       \E reachable \in [1..n -> BOOLEAN] :
         /\ testbed = [devices |-> Connectable([i \in 1..n |-> [name |-> DeviceName(i),
                                                                custom |-> customs[i]]],
                                               types, reachable),
                       links |-> <<>>]
         /\ \/ /\ pc = "test_stp.connect_to_devices"
               /\ f = 1
               /\ \A i \in 1..n : customs[i] = <<>>
            \/ /\ pc = "test_layer2.connect_to_devices"
               /\ \A i \in 1..n : types[i] = "switch"
    /\ parameters = <<>>
    /\ self_attr = <<>>
    /\ cursor = 1
    /\ failed = <<>>
    /\ details = <<>>
    /\ observed = <<>>
    /\ visited = <<>>
    /\ result = [s \in StpSections \cup L2Sections |-> "NotRun"]
    /\ NormIdle

\* the devices after device.connect() was called for the first n of them
connect_first(devices, n) ==
    [i \in DOMAIN devices |->
       IF i <= n THEN [devices[i] EXCEPT !.connected = devices[i].reachable]
       ELSE devices[i]]

\* test_stp.py CommonSetup.connect_to_devices: a connect that raises is
\* logged and the loop goes on
stp_connect_to_devices ==
    /\ pc = "test_stp.connect_to_devices"
    /\ testbed' = [testbed EXCEPT !.devices = connect_first(testbed.devices,
                                                            Len(testbed.devices))]
    /\ result' = [result EXCEPT !["connect_to_devices"] = "Passed"]
    /\ pc' = "StpValidation.setup"
    /\ UNCHANGED <<parameters, self_attr, cursor, failed, details, observed, visited>>
    /\ UNCHANGED normvars

\* test_layer2.py CommonSetup.connect_to_devices: the first connect that
\* raises ends the subsection with self.failed, and with a common setup that
\* did not pass aetest blocks the testcases of the script
l2_connect_to_devices ==
    /\ pc = "test_layer2.connect_to_devices"
    /\ LET devices == testbed.devices
           unreachable == { i \in DOMAIN devices : ~devices[i].reachable }
           first == CHOOSE i \in unreachable : \A j \in unreachable : i <= j
       IN  IF unreachable = {}
           THEN /\ testbed' = [testbed EXCEPT !.devices = connect_first(devices, Len(devices))]
                /\ result' = [result EXCEPT !["connect_to_devices"] = "Passed"]
                /\ pc' = "mark_l2_devices"
           ELSE /\ testbed' = [testbed EXCEPT !.devices = connect_first(devices, first)]
                /\ result' = [s \in DOMAIN result |->
                                IF s = "connect_to_devices" THEN "Failed"
                                ELSE IF s \in L2Sections \ {"mark_l2_devices"} THEN "Blocked"
                                ELSE result[s]]
                /\ pc' = "done"
    /\ UNCHANGED <<parameters, self_attr, cursor, failed, details, observed, visited>>
    /\ UNCHANGED normvars

\* device.type in ['switch', 'router']
is_switch(device) == device.type \in {"switch", "router"}

\* a setup that keeps every switch, connected or not, which StpValidation.setup
\* does not do
is_switch_connected_or_not(device) == is_switch(device)

\* not skipped by 'if not device.connected: continue', and a switch
is_connected_switch(device) == device.connected /\ is_switch(device)

\* StpValidation.setup
StpValidation_setup ==
    /\ pc = "StpValidation.setup"
    /\ LET switches == SelectSeq(testbed.devices, is_connected_switch)
       IN  /\ self_attr' = [switches |-> switches]
           /\ SetupStep("StpValidation.setup", switches = <<>>, "check_stp_enabled", "done")
    /\ UNCHANGED <<testbed, parameters>>
    /\ UNCHANGED normvars

\* the body of check_stp_enabled for one device
stp_enabled_findings(device, answer) ==
    IF answer.raised THEN << [device |-> device.name, error |-> "raised"] >>
    ELSE IF answer.output = <<>>
    THEN << [device |-> device.name, issue |-> "Parser returned empty data"] >>
    ELSE <<>>

\* StpValidation.check_stp_enabled, one device of self.switches
check_stp_enabled ==
    /\ pc = "check_stp_enabled"
    /\ LET device == self_attr.switches[cursor]
       IN  IF cursor \notin DOMAIN self_attr.switches
           THEN SectionEnd("check_stp_enabled", "check_root_bridge_status")
           ELSE \E answer \in StpSummaryAnswers :
                  LoopStep(stp_enabled_findings(device, answer),
                           stp_enabled_findings(device, answer),
                           << [device |-> device.name, answer |-> answer] >>)
    /\ UNCHANGED <<testbed, parameters, self_attr>>
    /\ UNCHANGED normvars

\* 'show spanning-tree' payloads as the STP suite reads them
StpTopologyOutputs ==
    { <<>>,
      [topology |-> << <<"1", <<>> >> >>],
      [topology |-> << <<"1", [root |-> [priority |-> 32768, address |-> "aabb.cc00.0100"],
                               interfaces |-> << <<s_Gi0_1, [status |-> s_forwarding]>> >>]>> >>],
      [topology |-> << <<"1", [root |-> [priority |-> 32768],
                               interfaces |-> << <<s_Gi0_1, <<>> >> >>]>> >>] }

StpTopologyAnswers == {Raised} \cup { Returned(o) : o \in StpTopologyOutputs }

\* the loop over the instances of check_root_bridge_status
root_findings(device, topology) ==
    Concat([t \in DOMAIN topology |->
      IF "root" \notin DOMAIN topology[t][2] THEN <<>>
      ELSE IF \/ "priority" \notin DOMAIN topology[t][2].root
              \/ "address" \notin DOMAIN topology[t][2].root
      THEN << [device |-> device.name, issue |-> "Missing root info",
               inst_id |-> topology[t][1]] >>
      ELSE <<>>])

\* the body of check_root_bridge_status for one device: an exception is
\* logged
root_bridge_findings(device, answer) ==
    IF answer.raised THEN <<>>
    ELSE root_findings(device, ItemsUnder(answer.output, "topology"))

\* StpValidation.check_root_bridge_status, one device of self.switches
check_root_bridge_status ==
    /\ pc = "check_root_bridge_status"
    /\ LET device == self_attr.switches[cursor]
       IN  IF cursor \notin DOMAIN self_attr.switches
           THEN SectionEnd("check_root_bridge_status", "check_interface_states")
           ELSE \E answer \in StpTopologyAnswers :
                  LoopStep(root_bridge_findings(device, answer),
                           root_bridge_findings(device, answer),
                           << [device |-> device.name, answer |-> answer] >>)
    /\ UNCHANGED <<testbed, parameters, self_attr>>
    /\ UNCHANGED normvars

\* the loops over the instances and their interfaces of
\* check_interface_states
invalid_states(device, topology) ==
    Concat([t \in DOMAIN topology |->
      LET interfaces == ItemsUnder(topology[t][2], "interfaces")
      IN  Concat([i \in DOMAIN interfaces |->
                    IF "status" \notin DOMAIN interfaces[i][2]
                    THEN << [device |-> device.name, interface |-> interfaces[i][1],
                             issue |-> "No status found"] >>
                    ELSE <<>>])])

\* the body of check_interface_states for one device: an exception is logged
interface_state_findings(device, answer) ==
    IF answer.raised THEN <<>>
    ELSE invalid_states(device, ItemsUnder(answer.output, "topology"))

\* StpValidation.check_interface_states, one device of self.switches
check_interface_states ==
    /\ pc = "check_interface_states"
    /\ LET device == self_attr.switches[cursor]
       IN  IF cursor \notin DOMAIN self_attr.switches
           THEN SectionEnd("check_interface_states", "done")
           ELSE \E answer \in StpTopologyAnswers :
                  LoopStep(interface_state_findings(device, answer),
                           interface_state_findings(device, answer),
                           << [device |-> device.name, answer |-> answer] >>)
    /\ UNCHANGED <<testbed, parameters, self_attr>>
    /\ UNCHANGED normvars

ConnectNext ==
    \/ stp_connect_to_devices
    \/ StpValidation_setup
    \/ check_stp_enabled
    \/ check_root_bridge_status
    \/ check_interface_states
    \/ l2_connect_to_devices
    \/ mark_l2_devices
    \/ VLANValidation_setup
    \/ verify_vlan_existence
    \/ verify_vlan_state
    \/ verify_trunk_ports
    \/ STPValidation_setup
    \/ verify_stp_mode
    \/ verify_stp_port_states
    \/ PortChannelValidation_setup
    \/ verify_port_channel_status

SpecConnect == ConnectInit /\ [][ConnectNext]_vars

\* the devices of the testbed whose connect failed
Unreachable == { testbed.devices[i].name : i \in { j \in DOMAIN testbed.devices :
                                                      ~testbed.devices[j].reachable } }

\* StpValidation.setup has left every device that is not connected out of
\* self.switches, and has skipped the testcase when no switch connected
StpListHoldsConnected ==
    "switches" \in DOMAIN self_attr =>
      /\ \A i \in DOMAIN self_attr.switches : self_attr.switches[i].name \notin Unreachable
      /\ self_attr.switches = <<>> => result["StpValidation.setup"] = "Skipped"

CodePoints == <<" ",",",".","/","0","1","2","3","4","5","6","7","8","9","_","a","b","c","d","e","f","g","h","i","j","k","l","m","n","o","p","q","r","s","t","u","v","w","x","y","z">>

ord(c) == CHOOSE i \in DOMAIN CodePoints : CodePoints[i] = c

\* a < b for two str
RECURSIVE str_less(_, _)
str_less(a, b) ==
    IF b = <<>> THEN FALSE
    ELSE IF a = <<>> THEN TRUE
    ELSE IF Head(a) # Head(b) THEN ord(Head(a)) < ord(Head(b))
    ELSE str_less(Tail(a), Tail(b))

\* sorted(l) for a list of str
RECURSIVE sorted(_)
sorted(l) ==
    IF l = <<>> THEN <<>>
    ELSE LET least == CHOOSE i \in DOMAIN l : \A j \in DOMAIN l : ~str_less(l[j], l[i])
         IN  <<l[least]>> \o sorted([k \in 1..(Len(l) - 1) |-> IF k < least THEN l[k] ELSE l[k + 1]])

\* s.strip()
RECURSIVE str_strip(_)
str_strip(text) ==
    IF text = <<>> THEN <<>>
    ELSE IF IsSpace(Head(text)) THEN str_strip(Tail(text))
    ELSE IF IsSpace(text[Len(text)]) THEN str_strip(SubSeq(text, 1, Len(text) - 1))
    ELSE text

\* s.endswith(suffix)
str_endswith(s, suffix) ==
    Len(s) >= Len(suffix) /\ OccursAt(s, Len(s) - Len(suffix) + 1, suffix)

s_tests == <<"t","e","s","t","s">>
s_test_ == <<"t","e","s","t","_">>
s_py == <<".","p","y">>
s_star == <<"*">>
s_layer2 == <<"l","a","y","e","r","2">>
s_layer3 == <<"l","a","y","e","r","3">>

\* files that may lie under the working directory
JobFiles ==
    { s_tests \o <<"/">> \o s_layer2 \o <<"/">> \o s_test_ \o <<"s","t","p">> \o s_py,
      s_tests \o <<"/">> \o s_layer2 \o <<"/">> \o s_test_ \o <<"r","e","p">> \o s_py,
      s_tests \o <<"/">> \o s_layer3 \o <<"/">> \o s_test_ \o <<"o","s","p","f","_","h","e","a","l","t","h">> \o s_py,
      s_tests \o <<"/">> \o <<"l","a","y","e","r","1">> \o <<"/">> \o <<"_","_","i","n","i","t","_","_">> \o s_py }

\* values of PYATS_TEST_SUITES; the empty str when it is not set
SuiteEnvs ==
    { <<>>,
      s_layer2,
      s_layer3 \o <<",">> \o s_layer2,
      s_layer2 \o <<","," ">> \o s_layer2,
      <<"l","a","y","e","r","9">> }

\* the files that match tests/<suite>/test_*.py, suite a name or *
matching(files, suite) ==
    { f \in files :
        LET parts == str_split(f, "/")
        IN  /\ Len(parts) = 3
            /\ parts[1] = s_tests
            /\ suite = s_star \/ parts[2] = suite
            /\ Len(parts[3]) >= Len(s_test_) + Len(s_py)
            /\ str_startswith(parts[3], s_test_)
            /\ str_endswith(parts[3], s_py) }

\* the lists glob.glob may return for the pattern: the matching files in an
\* arbitrary order
glob(files, suite) == ListOfSet(matching(files, suite))

\* [suite.strip() for suite in test_suites_env.split(',')]
requested_suites(test_suites_env) ==
    LET parts == str_split(test_suites_env, ",")
    IN  [k \in DOMAIN parts |-> str_strip(parts[k])]

JobSections == { "run_all" }

JobInit ==
    /\ \E env \in SuiteEnvs : \E files \in SUBSET JobFiles :
         parameters = [PYATS_TEST_SUITES |-> env, files |-> files]
    /\ testbed = [devices |-> <<>>, links |-> <<>>]
    /\ self_attr = <<>>
    /\ pc = "discover"
    /\ cursor = 1
    /\ failed = <<>>
    /\ details = <<>>
    /\ observed = <<>>
    /\ visited = <<>>
    /\ result = [s \in JobSections |-> "NotRun"]
    /\ NormIdle

\* the lists the loop over requested_suites may leave in test_scripts after
\* the suites from position k on
RECURSIVE extended(_, _, _)
extended(files, suites, k) ==
    IF k > Len(suites) THEN { <<>> }
    ELSE { found \o rest : found \in glob(files, suites[k]),
                           rest \in extended(files, suites, k + 1) }

\* main up to the loop that runs the scripts: test_scripts is built from
\* PYATS_TEST_SUITES or by auto-discovery, and main returns if it is empty
discover ==
    /\ pc = "discover"
    /\ \E test_scripts \in
            IF parameters.PYATS_TEST_SUITES # <<>>
            THEN extended(parameters.files,
                          requested_suites(parameters.PYATS_TEST_SUITES), 1)
            ELSE glob(parameters.files, s_star) :
         /\ self_attr' = [test_scripts |-> test_scripts]
         /\ pc' = IF test_scripts = <<>> THEN "done" ELSE "run"
         /\ result' = [result EXCEPT !["run_all"] =
                          IF test_scripts = <<>> THEN "Returned" ELSE "Running"]
    /\ UNCHANGED <<testbed, parameters, cursor, failed, details, observed, visited>>
    /\ UNCHANGED normvars

\* testscript.split('/')[-2] if '/' in testscript else 'unknown'
suite_name(testscript) ==
    LET parts == str_split(testscript, "/")
    IN  IF Len(parts) > 1 THEN parts[Len(parts) - 1]
        ELSE <<"u","n","k","n","o","w","n">>

\* f'{suite_name}_tests'
taskid(testscript) == suite_name(testscript) \o <<"_">> \o s_tests

\* one iteration of 'for testscript in sorted(test_scripts)': the call of
\* run(); after the last one main returns
run_testscript ==
    /\ pc = "run"
    /\ LET scripts == sorted(self_attr.test_scripts)
       IN  IF cursor \notin DOMAIN scripts
           THEN /\ pc' = "done"
                /\ result' = [result EXCEPT !["run_all"] = "Returned"]
                /\ UNCHANGED <<cursor, observed>>
           ELSE /\ observed' = Append(observed, [testscript |-> scripts[cursor],
                                                 taskid |-> taskid(scripts[cursor])])
                /\ cursor' = cursor + 1
                /\ UNCHANGED <<pc, result>>
    /\ UNCHANGED <<testbed, parameters, self_attr, failed, details, visited>>
    /\ UNCHANGED normvars

JobNext ==
    \/ discover
    \/ run_testscript

SpecJob == JobInit /\ [][JobNext]_vars

\* the scripts run_all is to run: those under the listed suites, or all
Discovered ==
    IF parameters.PYATS_TEST_SUITES # <<>>
    THEN UNION { matching(parameters.files, suite) :
                   suite \in SeqToSet(requested_suites(parameters.PYATS_TEST_SUITES)) }
    ELSE matching(parameters.files, s_star)

(***************************************************************************)
(* C25: run_all executes each discovered test script exactly once, one     *)
(* after another, in ascending order of script path: with                  *)
(* PYATS_TEST_SUITES set only the scripts under the listed suites, else    *)
(* all scripts matching tests/*/test_*.py, and no script when nothing is   *)
(* discovered.                                                             *)
(***************************************************************************)
C25_EachScriptOnceInPathOrder ==
    /\ \A i, j \in DOMAIN observed :
         i < j => str_less(observed[i].testscript, observed[j].testscript)
    /\ \A i \in DOMAIN observed : observed[i].testscript \in Discovered
    /\ pc = "done" => { observed[i].testscript : i \in DOMAIN observed } = Discovered

(***************************************************************************)
(* C30: in one run_all job any two distinct test scripts are submitted     *)
(* under distinct task ids, also when several scripts lie in the same      *)
(* tests/<suite>/ directory.                                               *)
(***************************************************************************)
C30_DistinctScriptsDistinctTaskIds ==
    \A i, j \in DOMAIN observed :
      observed[i].testscript # observed[j].testscript
        => observed[i].taskid # observed[j].taskid

\* the enablement flag of a device: the flag when the custom attributes set
\* it, else whether they define the expectation
enabled_by_flag(custom, flag, expectation) ==
    IF flag \in DOMAIN custom THEN custom[flag] ELSE expectation \in DOMAIN custom

(***************************************************************************)
(* C26: a device is treated as REP-enabled iff rep_enabled is true, where  *)
(* an unset rep_enabled defaults to true when rep_segment_id is defined;   *)
(* a device with the flag explicitly false is not marked (and likewise     *)
(* for ospf_enabled and ospf_neighbors).                                   *)
(***************************************************************************)
C26_MarkedIffEnablementFlag ==
    "rep_devices" \in DOMAIN parameters =>
        \A i \in DOMAIN testbed.devices :
            (testbed.devices[i] \in SeqToSet(parameters.rep_devices))
              <=> enabled_by_flag(testbed.devices[i].custom, "rep_enabled", "rep_segment_id")

\* the segment id occurs in the REP topology an answer carries: among the
\* segments of a parsed structure, or in the text after the words REP Segment
segment_occurs(observation, segment_id) ==
    IF observation.query = "parse"
    THEN \E k \in DOMAIN observation.answer.output.segments :
           observation.answer.output.segments[k][1] = str_int(segment_id)
    ELSE segment_pattern_found(observation.answer.output, segment_id)

(***************************************************************************)
(* C28: the verdict of verify_rep_segment for a device does not depend on  *)
(* the path that produced the observation: when the declared               *)
(* rep_segment_id does not occur in the device's REP topology the checker  *)
(* records a finding, after a structured parse as after the text fallback. *)
(***************************************************************************)
C28_AbsentSegmentReportedOnBothPaths ==
    Stepped("verify_rep_segment") =>
      LET device == parameters.rep_devices[LastVisited]
          topology == observed[Len(observed)]
      IN  ( /\ "rep_segment_id" \in DOMAIN device.custom
            /\ ~topology.answer.raised
            /\ topology.answer.output # <<>>
            /\ ~segment_occurs(topology, device.custom.rep_segment_id) )
          => details # <<>>

(***************************************************************************)
(* OspfNeighbors.verify_ospf_neighbors of test_mpls_core.py, the body for  *)
(* one device with expected neighbours and a parse that returned.          *)
(***************************************************************************)
\* state == 'FULL', the state in upper case
is_exactly_full(nbr) == nbr.state = s_FULL

\* the neighbours the MPLS suite extracts as FULL: from the VRF format only
mpls_full_neighbors(output) ==
    LET full == IF "vrf" \in DOMAIN output
                THEN SelectSeq(neighbor_states(ospf_area_interfaces(output)), is_exactly_full)
                ELSE <<>>
    IN  [k \in DOMAIN full |-> full[k].neighbor]

\* set(expected_neighbors) - set(full_neighbors)
mpls_missing_neighbors(expected_neighbors, output) ==
    SeqToSet(expected_neighbors) \ SeqToSet(mpls_full_neighbors(output))

(***************************************************************************)
(* C29: the OSPF neighbour checker of the MPLS suite and the one of the    *)
(* OSPF suite agree: on the same 'show ip ospf neighbor' payload and the   *)
(* same ospf_neighbors expectation they report the same set of missing     *)
(* neighbours, for every state string, FULL/DR and FULL/BDR included.      *)
(***************************************************************************)
C29_NeighborCheckersAgree ==
    Stepped("verify_ospf_neighbors") /\ observed # <<>> /\ ~observed[1].answer.raised =>
      LET device == parameters.ospf_routers[LastVisited]
      IN  ReportedMissing
            = mpls_missing_neighbors(device.custom.ospf_neighbors,
                                     observed[1].answer.output)

(***************************************************************************)
(* C27: expectations are read-only for the run.  No step of the run        *)
(* writes to the devices of the testbed and their custom attributes, and   *)
(* once common setup has published the gated device list no testcase       *)
(* changes it, so each checker sees the same expectations whatever         *)
(* checkers ran before it.                                                 *)
(***************************************************************************)
C27_ExpectationsReadOnly ==
    [][ /\ testbed' = testbed
        /\ "l2_devices" \in DOMAIN parameters => parameters' = parameters ]_vars

\* a checker iterates over the devices its testcase kept after an earlier
\* checker ended, the kept devices being fewer than the published ones
C27_LaterCheckerOnKeptDevices ==
    /\ Stepped("verify_vlan_state")
    /\ result["verify_vlan_existence"] \in {"Passed", "Failed"}
    /\ Len(self_attr.vlan_devices) < Len(parameters.l2_devices)

====
